---------------------------- MODULE Spec2Model ----------------------------
(***************************************************************************)
(* Voxel world, DDA raycaster, player physics and edit operations of the   *)
(* asgn4 program (src/asgn4/src/asgn4.js), with the 12-level world of the  *)
(* second asgn3 program (src/asgn3/src/asgn3.js).                          *)
(*                                                                         *)
(* Numbers.  The program computes in JavaScript doubles.  Here every       *)
(* length, velocity and time scale is a fixed-point integer counted in     *)
(* units of EPS = 1e-4, so that ONE = 10000 units is the edge of a cell.   *)
(* Cell indices, mask values and angles in degrees are plain integers.     *)
(***************************************************************************)
EXTENDS Integers, Sequences, FiniteSets, TLC

VARIABLES
  columnMask,      \* columnMask[z][x]: occupancy bits of a column (Uint8Array row)
  blockType,       \* blockType[z][x][y]: texture id of a cell
  gSelectedBlock,  \* selected hotbar slot
  eye,             \* camera.eye.elements, <<x, y, z>>
  yawDeg,          \* camera.yawDeg
  pitchDeg,        \* camera.pitchDeg
  velY,            \* vertical velocity
  onGround,        \* grounded flag
  pointerLocked,   \* whether the canvas holds the pointer lock
  nTicks,          \* number of frames so far
  nInputs,         \* number of input events so far
  lastOp,          \* the last operation, its arguments and what it returned
  columnMask12,    \* columnMask of the asgn3 program whose MAX_H is 12
  shapesList,      \* asgn0: the list of the shapes drawn
  undoStack,       \* asgn0: the actions that undo() takes back, the last one first
  redoStack,       \* asgn0: the actions that redo() applies again
  g_strokeCount,   \* asgn0: shapes added by the action in progress
  g_isDragging,    \* asgn0: a stroke is in progress
  g_brushMode      \* asgn0: "drag" or "click"

\* the state of the asgn0 paint program
paint == <<shapesList, undoStack, redoStack, g_strokeCount, g_isDragging, g_brushMode>>

vars == <<columnMask, blockType, gSelectedBlock, eye, yawDeg, pitchDeg, velY,
          onGround, pointerLocked, nTicks, nInputs, lastOp, columnMask12, paint>>

\* the paint program as its script leaves it when loaded
InitPaint ==
  /\ shapesList = <<>>
  /\ undoStack = <<>>
  /\ redoStack = <<>>
  /\ g_strokeCount = 0
  /\ g_isDragging = FALSE
  /\ g_brushMode = "drag"

---------------------------------------------------------------------------
(* Program constants *)

EPS == 1
ONE == 10000 * EPS
EYE_HEIGHT == 17000
GRAVITY == -100
JUMP_V == 2600
MAX_FALL == -6000
PLAYER_HEIGHT == 18000
STEP_HEIGHT == 10000
MAX_H == 4
MAX_H_12 == 12
BLOCKS == <<0, 1, 2, 3>>

(* Bounds of the model *)

WORLD_W == 2
WORLD_D == 2
MaxCalls == 2

Xs == 0 .. (WORLD_W - 1)
Zs == 0 .. (WORLD_D - 1)
Ys == 0 .. (MAX_H - 1)

---------------------------------------------------------------------------
(* Arithmetic *)

Max(a, b) == IF a >= b THEN a ELSE b
Min(a, b) == IF a <= b THEN a ELSE b
Abs(a) == IF a < 0 THEN -a ELSE a
clamp(v, lo, hi) == Max(lo, Min(hi, v))

\* Math.floor of a fixed-point value, as a cell index
Floor(v) == v \div ONE

\* 1 << y
Shl1(y) == 2 ^ y

\* (mask & (1 << y)) !== 0
BitSet(mask, y) == (mask \div Shl1(y)) % 2 = 1

\* a store into a Uint8Array element keeps the low 8 bits
ToUint8(v) == v % 256

---------------------------------------------------------------------------
(* Voxels: one bitmask per column *)

\* the height maps parseWorld32 can hand to initVoxelsFromHeights
WorldMaps ==
  { [z \in Zs |-> [x \in Xs |-> clamp(Abs(1 - x) + 2 * Abs(1 - z), 0, MAX_H)]],
    [z \in Zs |-> [x \in Xs |-> clamp(2 * x + 2 * z, 0, MAX_H)]],
    [z \in Zs |-> [x \in Xs |-> 0]] }

InitVoxelsMask(worldMap) ==
  [z \in Zs |-> [x \in Xs |->
      LET h == clamp(worldMap[z][x], 0, MAX_H)
      IN  ToUint8(IF h = 0 THEN 0 ELSE Shl1(h) - 1)]]

InitVoxelsType == [z \in Zs |-> [x \in Xs |-> [y \in Ys |-> 0]]]

inBoundsXZ(x, z) == x >= 0 /\ x < WORLD_W /\ z >= 0 /\ z < WORLD_D

hasBlock(x, y, z) ==
  IF x < 0 \/ x >= WORLD_W \/ z < 0 \/ z >= WORLD_D \/ y < 0 \/ y >= MAX_H
  THEN FALSE
  ELSE BitSet(columnMask[z][x], y)

\* the value setBlock returns
SetBlockRet(x, y, z) ==
  ~(x < 0 \/ x >= WORLD_W \/ z < 0 \/ z >= WORLD_D \/ y < 0 \/ y >= MAX_H)

\* setBlock that stores the bit alone where the code ors it into the column's mask
SetBlockMaskOverwrite(x, y, z, on) ==
  IF ~SetBlockRet(x, y, z) THEN columnMask
  ELSE LET bit == Shl1(y)
           m == columnMask[z][x]
       IN  [columnMask EXCEPT ![z][x] =
              IF on THEN ToUint8(bit)
                    ELSE ToUint8(IF BitSet(m, y) THEN m - bit ELSE m)]

\* setBlock that adds the bit where the code ors it in
SetBlockMaskAdd(x, y, z, on) ==
  IF ~SetBlockRet(x, y, z) THEN columnMask
  ELSE LET bit == Shl1(y)
           m == columnMask[z][x]
       IN  [columnMask EXCEPT ![z][x] =
              IF on THEN ToUint8(m + bit)
                    ELSE ToUint8(IF BitSet(m, y) THEN m - bit ELSE m)]

\* columnMask after setBlock(x, y, z, on, slotIdx)
SetBlockMask(x, y, z, on) ==
  IF ~SetBlockRet(x, y, z) THEN columnMask
  ELSE LET bit == Shl1(y)
           m == columnMask[z][x]
       IN  [columnMask EXCEPT ![z][x] =
              IF on THEN ToUint8(IF BitSet(m, y) THEN m ELSE m + bit)
                    ELSE ToUint8(IF BitSet(m, y) THEN m - bit ELSE m)]

\* blockType after setBlock(x, y, z, on, slotIdx)
SetBlockType(x, y, z, on, slotIdx) ==
  IF ~SetBlockRet(x, y, z) THEN blockType
  ELSE LET tex == BLOCKS[clamp(slotIdx, 0, Len(BLOCKS) - 1) + 1]
       IN  [blockType EXCEPT ![z][x][y] = IF on THEN clamp(tex, 0, 3) ELSE 0]

RECURSIVE HighestFrom(_, _)
HighestFrom(mask, y) ==
  IF y < 0 THEN -1
  ELSE IF BitSet(mask, y) THEN y
  ELSE HighestFrom(mask, y - 1)

\* a scan that stops at the lowest block where the code scans down from the top
highestSolidYScanUp(x, z) ==
  IF x < 0 \/ x >= WORLD_W \/ z < 0 \/ z >= WORLD_D THEN -1
  ELSE LET ys == { y \in Ys : BitSet(columnMask[z][x], y) }
       IN  IF ys = {} THEN -1 ELSE CHOOSE y \in ys : \A w \in ys : y <= w

highestSolidYInColumn(x, z) ==
  IF x < 0 \/ x >= WORLD_W \/ z < 0 \/ z >= WORLD_D THEN -1
  ELSE HighestFrom(columnMask[z][x], MAX_H - 1)

groundLevelAt(x, z) ==
  LET top == highestSolidYInColumn(x, z)
  IN  IF top >= 0 THEN top + 1 ELSE 0

\* a range query that reports a column outside the grid as free
columnHasAnyBlockInYRangeOpen(x, z, yMin, yMax) ==
  IF x < 0 \/ x >= WORLD_W \/ z < 0 \/ z >= WORLD_D THEN FALSE
  ELSE LET lo == Max(0, Floor(yMin))
           hi == Min(MAX_H - 1, Floor(yMax))
       IN  \E y \in lo .. hi : hasBlock(x, y, z)

columnHasAnyBlockInYRange(x, z, yMin, yMax) ==
  IF x < 0 \/ x >= WORLD_W \/ z < 0 \/ z >= WORLD_D THEN TRUE
  ELSE LET lo == Max(0, Floor(yMin))
           hi == Min(MAX_H - 1, Floor(yMax))
       IN  \E y \in lo .. hi : hasBlock(x, y, z)

canOccupyAt(x, z, eyeY) ==
  LET feetY == eyeY - EYE_HEIGHT
      headY == feetY + PLAYER_HEIGHT
  IN  IF x < 0 \/ x >= WORLD_W \/ z < 0 \/ z >= WORLD_D THEN FALSE
      ELSE ~columnHasAnyBlockInYRange(x, z, feetY + EPS, headY - EPS)

---------------------------------------------------------------------------
(* Camera: look angles in whole degrees, directions in fixed point *)

\* a product and a quotient of two fixed-point values, rounded to the nearest unit
Mul(a, b) == (2 * a * b + ONE) \div (2 * ONE)
Div(a, b) ==
  IF b > 0 THEN (2 * a * ONE + b) \div (2 * b)
  ELSE (-(2 * a * ONE) - b) \div (-(2 * b))

\* Math.sin of 0..90 degrees
SinTable ==
   <<0, 175, 349, 523, 698, 872, 1045, 1219, 1392, 1564,
      1736, 1908, 2079, 2250, 2419, 2588, 2756, 2924, 3090, 3256,
      3420, 3584, 3746, 3907, 4067, 4226, 4384, 4540, 4695, 4848,
      5000, 5150, 5299, 5446, 5592, 5736, 5878, 6018, 6157, 6293,
      6428, 6561, 6691, 6820, 6947, 7071, 7193, 7314, 7431, 7547,
      7660, 7771, 7880, 7986, 8090, 8192, 8290, 8387, 8480, 8572,
      8660, 8746, 8829, 8910, 8988, 9063, 9135, 9205, 9272, 9336,
      9397, 9455, 9511, 9563, 9613, 9659, 9703, 9744, 9781, 9816,
      9848, 9877, 9903, 9925, 9945, 9962, 9976, 9986, 9994, 9998,
      10000>>

sinDeg(a) ==
  LET r == a % 360
  IN  IF r <= 90 THEN SinTable[r + 1]
      ELSE IF r <= 180 THEN SinTable[180 - r + 1]
      ELSE IF r <= 270 THEN -SinTable[r - 180 + 1]
      ELSE -SinTable[360 - r + 1]

cosDeg(a) == sinDeg(a + 90)

\* camera.forwardDir(): the unit look vector of yaw and pitch
forwardDir ==
  <<Mul(cosDeg(pitchDeg), cosDeg(yawDeg)), sinDeg(pitchDeg),
    Mul(cosDeg(pitchDeg), sinDeg(yawDeg))>>

\* camera.forwardDirXZ(): the look vector of yaw alone
forwardDirXZ(yaw) == <<cosDeg(yaw), 0, sinDeg(yaw)>>

---------------------------------------------------------------------------
(* Raycasts *)

INF == 1000000000
MAX_ITER == 2048
MAX_DIST == 70000

NoHit == [hit |-> FALSE]

Sign(v) == IF v > 0 THEN 1 ELSE IF v < 0 THEN -1 ELSE 0

\* a loop condition without the count of passes
RayRunningNoCount(c, s) == s.t <= c.maxDist

\* the condition of the loop of raycastVoxel: c holds what the loop leaves alone,
\* s what it changes
RayRunning(c, s) == s.iter < MAX_ITER /\ s.t <= c.maxDist

\* the current cell is inside the grid and occupied
RayAtBlock(s) ==
  /\ s.x >= 0 /\ s.x < WORLD_W /\ s.z >= 0 /\ s.z < WORLD_D
  /\ s.y >= 0 /\ s.y < MAX_H
  /\ hasBlock(s.x, s.y, s.z)

\* a step along X whenever the X boundary is nearer than the Y boundary, without
\* looking at the Z boundary
RayAdvanceXBeforeZ(c, s) ==
  IF s.tMaxX < s.tMaxY
  THEN [s EXCEPT !.iter = @ + 1, !.t = s.tMaxX, !.tMaxX = @ + c.tDeltaX,
                 !.x = @ + c.stepX, !.nx = -c.stepX, !.ny = 0, !.nz = 0]
  ELSE IF s.tMaxY < s.tMaxZ
  THEN [s EXCEPT !.iter = @ + 1, !.t = s.tMaxY, !.tMaxY = @ + c.tDeltaY,
                 !.y = @ + c.stepY, !.nx = 0, !.ny = -c.stepY, !.nz = 0]
  ELSE [s EXCEPT !.iter = @ + 1, !.t = s.tMaxZ, !.tMaxZ = @ + c.tDeltaZ,
                 !.z = @ + c.stepZ, !.nx = 0, !.ny = 0, !.nz = -c.stepZ]

\* the step to the next cell, with the iter++ of the loop
RayAdvance(c, s) ==
  IF s.tMaxX < s.tMaxY /\ s.tMaxX < s.tMaxZ
  THEN [s EXCEPT !.iter = @ + 1, !.t = s.tMaxX, !.tMaxX = @ + c.tDeltaX,
                 !.x = @ + c.stepX, !.nx = -c.stepX, !.ny = 0, !.nz = 0]
  ELSE IF s.tMaxY < s.tMaxZ
  THEN [s EXCEPT !.iter = @ + 1, !.t = s.tMaxY, !.tMaxY = @ + c.tDeltaY,
                 !.y = @ + c.stepY, !.nx = 0, !.ny = -c.stepY, !.nz = 0]
  ELSE [s EXCEPT !.iter = @ + 1, !.t = s.tMaxZ, !.tMaxZ = @ + c.tDeltaZ,
                 !.z = @ + c.stepZ, !.nx = 0, !.ny = 0, !.nz = -c.stepZ]

\* what raycastVoxel returns from inside the loop
RayHit(s) ==
  [hit |-> TRUE, x |-> s.x, y |-> s.y, z |-> s.z,
   nx |-> s.nx, ny |-> s.ny, nz |-> s.nz, t |-> s.t]

\* the loop of raycastVoxel
RECURSIVE RayLoop(_, _)
RayLoop(c, s) ==
  IF ~RayRunning(c, s) THEN NoHit
  ELSE IF RayAtBlock(s) THEN RayHit(s)
  ELSE RayLoop(c, RayAdvance(c, s))

\* a first boundary that is always the cell's upper face, whatever the direction
FirstBoundaryUpper(o, d) ==
  LET cell == Floor(o)
      step == Sign(d)
      nextBoundary == cell + 1
      tMax == IF step = 0 THEN INF ELSE Div(nextBoundary * ONE - o, d)
  IN  IF tMax < 0 THEN 0 ELSE tMax

\* the distance to the first cell boundary along one axis
FirstBoundary(o, d) ==
  LET cell == Floor(o)
      step == Sign(d)
      nextBoundary == IF step > 0 THEN cell + 1 ELSE cell
      tMax == IF step = 0 THEN INF ELSE Div(nextBoundary * ONE - o, d)
  IN  IF tMax < 0 THEN 0 ELSE tMax

\* what raycastVoxel computes before its loop and the loop leaves alone: the steps
\* and the distance along the ray between two boundaries of each axis
RayConst(d, maxDist) ==
  [maxDist |-> maxDist,
   stepX |-> Sign(d[1]), stepY |-> Sign(d[2]), stepZ |-> Sign(d[3]),
   tDeltaX |-> IF Sign(d[1]) = 0 THEN INF ELSE Abs(Div(ONE, d[1])),
   tDeltaY |-> IF Sign(d[2]) = 0 THEN INF ELSE Abs(Div(ONE, d[2])),
   tDeltaZ |-> IF Sign(d[3]) = 0 THEN INF ELSE Abs(Div(ONE, d[3]))]

\* the variables of the loop of raycastVoxel as the loop finds them
RayStart(origin, d) ==
  [iter |-> 0,
   x |-> Floor(origin[1]), y |-> Floor(origin[2]), z |-> Floor(origin[3]),
   tMaxX |-> FirstBoundary(origin[1], d[1]),
   tMaxY |-> FirstBoundary(origin[2], d[2]),
   tMaxZ |-> FirstBoundary(origin[3], d[3]),
   t |-> 0, nx |-> 0, ny |-> 0, nz |-> 0]

\* the cells the loop of raycastVoxel tests, one entry for each pass through the
\* loop body: the cell and the distance t at which it was entered
RECURSIVE RayVisits(_, _)
RayVisits(c, s) ==
  IF ~RayRunning(c, s) THEN <<>>
  ELSE <<[x |-> s.x, y |-> s.y, z |-> s.z, t |-> s.t]>> \o
       (IF RayAtBlock(s) THEN <<>> ELSE RayVisits(c, RayAdvance(c, s)))

\* the cast of raycastVoxel from origin along direction d
raycastVoxelFrom(origin, d, maxDist) == RayLoop(RayConst(d, maxDist), RayStart(origin, d))

\* raycastVoxel(maxDist): from camera.eye along camera.forwardDir()
raycastVoxel(maxDist) == raycastVoxelFrom(eye, forwardDir, maxDist)

\* the cast of raycastGroundPlane from origin along direction d
raycastGroundPlaneFrom(origin, d, yPlane, maxDist) ==
  LET oy == origin[2]
      dy == d[2]
  IN  IF Abs(dy) * 100 < EPS THEN NoHit
      ELSE LET t == Div(yPlane - oy, dy)
               px == origin[1] + Mul(d[1], t)
               pz == origin[3] + Mul(d[3], t)
               x == Floor(px)
               z == Floor(pz)
           IN  IF t < 0 \/ t > maxDist THEN NoHit
               ELSE IF x < 0 \/ x >= WORLD_W \/ z < 0 \/ z >= WORLD_D THEN NoHit
               ELSE [hit |-> TRUE, x |-> x, y |-> yPlane, z |-> z, t |-> t,
                     px |-> px, pz |-> pz]

\* raycastGroundPlane(yPlane, maxDist): from camera.eye along camera.forwardDir()
raycastGroundPlane(yPlane, maxDist) == raycastGroundPlaneFrom(eye, forwardDir, yPlane, maxDist)

isAtLeastOneBlockAwayFromVoxel(x, y, z) ==
  LET dx == eye[1] - (x * ONE + ONE \div 2)
      dy == eye[2] - (y * ONE + ONE \div 2)
      dz == eye[3] - (z * ONE + ONE \div 2)
  IN  \* one square alone reaches 1.0 when a difference does: the sum is then not needed
      \/ Abs(dx) >= ONE \/ Abs(dy) >= ONE \/ Abs(dz) >= ONE
      \/ dx * dx + dy * dy + dz * dz >= ONE * ONE

---------------------------------------------------------------------------
(* Player physics *)

highestSolidYBelowFeet(x, z, feetY) ==
  IF ~inBoundsXZ(x, z) THEN -1
  ELSE LET yMax == Min(MAX_H - 1, Floor(feetY - EPS))
           below == { y \in 0 .. yMax : hasBlock(x, y, z) }
       IN  IF below = {} THEN -1 ELSE CHOOSE y \in below : \A w \in below : w <= y

\* the floor surface under feetY, in fixed point (0 if none)
floorSurfaceAt(x, z, feetY) ==
  LET y == highestSolidYBelowFeet(x, z, feetY)
  IN  IF y >= 0 THEN (y + 1) * ONE ELSE 0

floorSurfaceAtWithinStep(x, z, feetY, stepHeight) ==
  floorSurfaceAt(x, z, feetY + stepHeight + EPS)

\* a ceiling check that starts at the cell above the one that holds the old head
CeilingSweepAbove(cx, cz, oldHeadY, newEyeY, v) ==
  LET newHeadY == newEyeY - EYE_HEIGHT + PLAYER_HEIGHT
      yStart == Max(0, Floor(oldHeadY) + 1)
      yEnd == Min(MAX_H - 1, Floor(newHeadY - EPS))
      hits == { y \in yStart .. yEnd : hasBlock(cx, y, cz) }
  IN  IF v > 0 /\ hits # {}
      THEN LET y == CHOOSE h \in hits : \A w \in hits : h <= w
           IN  [eyeY |-> y * ONE - PLAYER_HEIGHT + EYE_HEIGHT, velY |-> 0]
      ELSE [eyeY |-> newEyeY, velY |-> v]

\* the swept ceiling check: eye height and velocity after it
CeilingSweep(cx, cz, oldHeadY, newEyeY, v) ==
  LET newHeadY == newEyeY - EYE_HEIGHT + PLAYER_HEIGHT
      yStart == Max(0, Floor(oldHeadY + EPS))
      yEnd == Min(MAX_H - 1, Floor(newHeadY - EPS))
      hits == { y \in yStart .. yEnd : hasBlock(cx, y, cz) }
  IN  IF v > 0 /\ hits # {}
      THEN LET y == CHOOSE h \in hits : \A w \in hits : h <= w
           IN  [eyeY |-> y * ONE - PLAYER_HEIGHT + EYE_HEIGHT, velY |-> 0]
      ELSE [eyeY |-> newEyeY, velY |-> v]

\* a floor check that takes feet close to the floor for grounded at any velocity
FloorSweepSticky(cx, cz, oldFeetY, eyeY, v) ==
  LET feetY == eyeY - EYE_HEIGHT
  IN  IF ~(v <= 0) THEN [eyeY |-> eyeY, velY |-> v, onGround |-> FALSE]
      ELSE
        LET yMax == Min(MAX_H - 1, Floor(oldFeetY - EPS))
            yMin == Max(0, Floor(feetY - EPS))
            crossed == { y \in yMin .. yMax :
                           /\ hasBlock(cx, y, cz)
                           /\ (y + 1) * ONE <= oldFeetY + EPS
                           /\ (y + 1) * ONE >= feetY - EPS }
            landedSurface ==
              IF crossed # {}
              THEN ((CHOOSE y \in crossed : \A w \in crossed : w <= y) + 1) * ONE
              ELSE floorSurfaceAt(cx, cz, feetY + EPS)
        IN  IF feetY < landedSurface
            THEN [eyeY |-> landedSurface + EYE_HEIGHT, velY |-> 0, onGround |-> TRUE]
            ELSE [eyeY |-> eyeY, velY |-> v,
                  onGround |-> Abs(feetY - landedSurface) < 10 * EPS]

\* a floor check without the sweep: only the floor under the new feet is looked at
FloorNoSweep(cx, cz, oldFeetY, eyeY, v) ==
  LET feetY == eyeY - EYE_HEIGHT
      landedSurface == floorSurfaceAt(cx, cz, feetY + EPS)
  IN  IF ~(v <= 0) THEN [eyeY |-> eyeY, velY |-> v, onGround |-> FALSE]
      ELSE IF feetY < landedSurface
      THEN [eyeY |-> landedSurface + EYE_HEIGHT, velY |-> 0, onGround |-> TRUE]
      ELSE [eyeY |-> eyeY, velY |-> v,
            onGround |-> Abs(feetY - landedSurface) < 10 * EPS /\ Abs(v) * 100 < EPS]

\* a floor check that forgets to stop the fall when it puts the feet on the floor
FloorSweepKeepVel(cx, cz, oldFeetY, eyeY, v) ==
  LET feetY == eyeY - EYE_HEIGHT
  IN  IF ~(v <= 0) THEN [eyeY |-> eyeY, velY |-> v, onGround |-> FALSE]
      ELSE
        LET yMax == Min(MAX_H - 1, Floor(oldFeetY - EPS))
            yMin == Max(0, Floor(feetY - EPS))
            crossed == { y \in yMin .. yMax :
                           /\ hasBlock(cx, y, cz)
                           /\ (y + 1) * ONE <= oldFeetY + EPS
                           /\ (y + 1) * ONE >= feetY - EPS }
            landedSurface ==
              IF crossed # {}
              THEN ((CHOOSE y \in crossed : \A w \in crossed : w <= y) + 1) * ONE
              ELSE floorSurfaceAt(cx, cz, feetY + EPS)
        IN  IF feetY < landedSurface
            THEN [eyeY |-> landedSurface + EYE_HEIGHT, velY |-> v, onGround |-> TRUE]
            ELSE [eyeY |-> eyeY, velY |-> v,
                  onGround |-> Abs(feetY - landedSurface) < 10 * EPS /\ Abs(v) * 100 < EPS]

\* the swept floor check: eye height, velocity and grounded flag after it
FloorSweep(cx, cz, oldFeetY, eyeY, v) ==
  LET feetY == eyeY - EYE_HEIGHT
  IN  IF ~(v <= 0) THEN [eyeY |-> eyeY, velY |-> v, onGround |-> FALSE]
      ELSE
        LET yMax == Min(MAX_H - 1, Floor(oldFeetY - EPS))
            yMin == Max(0, Floor(feetY - EPS))
            crossed == { y \in yMin .. yMax :
                           /\ hasBlock(cx, y, cz)
                           /\ (y + 1) * ONE <= oldFeetY + EPS
                           /\ (y + 1) * ONE >= feetY - EPS }
            landedSurface ==
              IF crossed # {}
              THEN ((CHOOSE y \in crossed : \A w \in crossed : w <= y) + 1) * ONE
              ELSE floorSurfaceAt(cx, cz, feetY + EPS)
        IN  IF feetY < landedSurface
            THEN [eyeY |-> landedSurface + EYE_HEIGHT, velY |-> 0, onGround |-> TRUE]
            ELSE [eyeY |-> eyeY, velY |-> v,
                  onGround |-> Abs(feetY - landedSurface) < 10 * EPS /\ Abs(v) * 100 < EPS]

\* updateVerticalPhysics without the clamp of the fall speed
updateVerticalPhysicsNoClamp(e, v, g, dt) ==
  LET cx == Floor(e[1])
      cz == Floor(e[3])
      oldEyeY == e[2]
      oldFeetY == oldEyeY - EYE_HEIGHT
      oldHeadY == oldFeetY + PLAYER_HEIGHT
      v1 == v + Mul(GRAVITY, dt)
      newEyeY == oldEyeY + Mul(v1, dt)
      c == CeilingSweep(cx, cz, oldHeadY, newEyeY, v1)
  IN  IF ~inBoundsXZ(cx, cz)
      THEN [eyeY |-> e[2], velY |-> v, onGround |-> g]
      ELSE FloorSweep(cx, cz, oldFeetY, c.eyeY, c.velY)

\* updateVerticalPhysics(dtScale) for eye e, velocity v and grounded flag g:
\* eye height, velocity and grounded flag after it
updateVerticalPhysics(e, v, g, dt) ==
  LET cx == Floor(e[1])
      cz == Floor(e[3])
      oldEyeY == e[2]
      oldFeetY == oldEyeY - EYE_HEIGHT
      oldHeadY == oldFeetY + PLAYER_HEIGHT
      v0 == v + Mul(GRAVITY, dt)
      v1 == IF v0 < MAX_FALL THEN MAX_FALL ELSE v0
      newEyeY == oldEyeY + Mul(v1, dt)
      c == CeilingSweep(cx, cz, oldHeadY, newEyeY, v1)
  IN  IF ~inBoundsXZ(cx, cz)
      THEN [eyeY |-> e[2], velY |-> v, onGround |-> g]
      ELSE FloorSweep(cx, cz, oldFeetY, c.eyeY, c.velY)

---------------------------------------------------------------------------
(* Camera movement *)

\* attemptMoveTo that leaves the grounded flag alone when the floor drops away
attemptMoveToKeepGround(e, g, tx, tz) ==
  LET curCX == Floor(e[1])
      curCZ == Floor(e[3])
      tgtCX == Floor(tx)
      tgtCZ == Floor(tz)
      curFeet == e[2] - EYE_HEIGHT
      curFloor == floorSurfaceAt(curCX, curCZ, curFeet + EPS)
      tgtFloor == floorSurfaceAtWithinStep(tgtCX, tgtCZ, curFeet, STEP_HEIGHT)
      newEyeY == IF g /\ tgtFloor > curFloor + EPS THEN tgtFloor + EYE_HEIGHT ELSE e[2]
      stay == [from |-> e, grounded |-> g, tx |-> tx, tz |-> tz,
               eye |-> e, onGround |-> g, ok |-> FALSE]
  IN  IF tgtCX < 0 \/ tgtCX >= WORLD_W \/ tgtCZ < 0 \/ tgtCZ >= WORLD_D THEN stay
      ELSE IF g /\ tgtFloor - curFloor > STEP_HEIGHT THEN stay
      ELSE IF ~canOccupyAt(tgtCX, tgtCZ, newEyeY) THEN stay
      ELSE [from |-> e, grounded |-> g, tx |-> tx, tz |-> tz,
            eye |-> <<tx, newEyeY, tz>>, onGround |-> g, ok |-> TRUE]

\* attemptMoveTo that takes what lies outside the grid for open air
attemptMoveToOpen(e, g, tx, tz) ==
  LET curCX == Floor(e[1])
      curCZ == Floor(e[3])
      tgtCX == Floor(tx)
      tgtCZ == Floor(tz)
      curFeet == e[2] - EYE_HEIGHT
      curFloor == floorSurfaceAt(curCX, curCZ, curFeet + EPS)
      tgtFloor == floorSurfaceAtWithinStep(tgtCX, tgtCZ, curFeet, STEP_HEIGHT)
      newEyeY == IF g /\ tgtFloor > curFloor + EPS THEN tgtFloor + EYE_HEIGHT ELSE e[2]
      stay == [from |-> e, grounded |-> g, tx |-> tx, tz |-> tz,
               eye |-> e, onGround |-> g, ok |-> FALSE]
  IN  IF g /\ tgtFloor - curFloor > STEP_HEIGHT THEN stay
      ELSE IF columnHasAnyBlockInYRangeOpen(tgtCX, tgtCZ,
                 newEyeY - EYE_HEIGHT + EPS, newEyeY - EYE_HEIGHT + PLAYER_HEIGHT - EPS)
      THEN stay
      ELSE [from |-> e, grounded |-> g, tx |-> tx, tz |-> tz,
            eye |-> <<tx, newEyeY, tz>>,
            onGround |-> IF g /\ tgtFloor < curFloor - EPS THEN FALSE ELSE g,
            ok |-> TRUE]

\* attemptMoveTo that takes a floor exactly STEP_HEIGHT higher for a wall
attemptMoveToStrict(e, g, tx, tz) ==
  LET curCX == Floor(e[1])
      curCZ == Floor(e[3])
      tgtCX == Floor(tx)
      tgtCZ == Floor(tz)
      curFeet == e[2] - EYE_HEIGHT
      curFloor == floorSurfaceAt(curCX, curCZ, curFeet + EPS)
      tgtFloor == floorSurfaceAtWithinStep(tgtCX, tgtCZ, curFeet, STEP_HEIGHT)
      newEyeY == IF g /\ tgtFloor > curFloor + EPS THEN tgtFloor + EYE_HEIGHT ELSE e[2]
      stay == [from |-> e, grounded |-> g, tx |-> tx, tz |-> tz,
               eye |-> e, onGround |-> g, ok |-> FALSE]
  IN  IF tgtCX < 0 \/ tgtCX >= WORLD_W \/ tgtCZ < 0 \/ tgtCZ >= WORLD_D THEN stay
      ELSE IF g /\ tgtFloor - curFloor >= STEP_HEIGHT THEN stay
      ELSE IF ~canOccupyAt(tgtCX, tgtCZ, newEyeY) THEN stay
      ELSE [from |-> e, grounded |-> g, tx |-> tx, tz |-> tz,
            eye |-> <<tx, newEyeY, tz>>,
            onGround |-> IF g /\ tgtFloor < curFloor - EPS THEN FALSE ELSE g,
            ok |-> TRUE]

\* attemptMoveTo(tx, tz) of tryMove, from eye e with grounded flag g
attemptMoveTo(e, g, tx, tz) ==
  LET curCX == Floor(e[1])
      curCZ == Floor(e[3])
      tgtCX == Floor(tx)
      tgtCZ == Floor(tz)
      curFeet == e[2] - EYE_HEIGHT
      curFloor == floorSurfaceAt(curCX, curCZ, curFeet + EPS)
      tgtFloor == floorSurfaceAtWithinStep(tgtCX, tgtCZ, curFeet, STEP_HEIGHT)
      newEyeY == IF g /\ tgtFloor > curFloor + EPS THEN tgtFloor + EYE_HEIGHT ELSE e[2]
      stay == [from |-> e, grounded |-> g, tx |-> tx, tz |-> tz,
               eye |-> e, onGround |-> g, ok |-> FALSE]
  IN  IF tgtCX < 0 \/ tgtCX >= WORLD_W \/ tgtCZ < 0 \/ tgtCZ >= WORLD_D THEN stay
      ELSE IF g /\ tgtFloor - curFloor > STEP_HEIGHT THEN stay
      ELSE IF ~canOccupyAt(tgtCX, tgtCZ, newEyeY) THEN stay
      ELSE [from |-> e, grounded |-> g, tx |-> tx, tz |-> tz,
            eye |-> <<tx, newEyeY, tz>>,
            onGround |-> IF g /\ tgtFloor < curFloor - EPS THEN FALSE ELSE g,
            ok |-> TRUE]

\* the Z attempt of tryMove, made from where the X attempt a left the eye
attemptMoveZ(a, tz) == <<a, attemptMoveTo(a.eye, a.onGround, a.eye[1], tz)>>

\* tryMove that gives the whole move up when the X attempt is rejected
tryMoveStopsAtWall(e, g, dx, dz) ==
  LET a == attemptMoveTo(e, g, e[1] + dx, e[3])
  IN  IF a.ok THEN attemptMoveZ(a, e[3] + dz)
      ELSE <<a, [from |-> a.eye, grounded |-> a.onGround, tx |-> a.eye[1],
                 tz |-> e[3] + dz, eye |-> a.eye, onGround |-> a.onGround, ok |-> FALSE]>>

\* tryMove(deltaVec) from eye e with grounded flag g: the X attempt, then the Z
\* attempt from where the first left the eye; both attempts are returned
tryMove(e, g, dx, dz) ==
  attemptMoveZ(attemptMoveTo(e, g, e[1] + dx, e[3]), e[3] + dz)

\* the displacement of each movement key at a given yaw and speed
moveForward(yaw, speed) ==
  <<Mul(forwardDirXZ(yaw)[1], speed), Mul(forwardDirXZ(yaw)[3], speed)>>
moveBackward(yaw, speed) ==
  <<Mul(forwardDirXZ(yaw)[1], -speed), Mul(forwardDirXZ(yaw)[3], -speed)>>
\* cross(f, up) with up = (0,1,0) is (-f.z, 0, f.x)
moveRight(yaw, speed) ==
  <<Mul(-forwardDirXZ(yaw)[3], speed), Mul(forwardDirXZ(yaw)[1], speed)>>
\* cross(up, f) is (f.z, 0, -f.x)
moveLeft(yaw, speed) ==
  <<Mul(forwardDirXZ(yaw)[3], speed), Mul(-forwardDirXZ(yaw)[1], speed)>>

\* a clamp that holds the pitch at the upper limit only
ClampPitchUpper(p) == IF p > 89 THEN 89 ELSE p

\* pitch after addLookDeltaInstant
ClampPitch(p) == IF p > 89 THEN 89 ELSE IF p < -89 THEN -89 ELSE p

\* camera.addLookDeltaInstant(deltaYawDeg, deltaPitchDeg): the angles after it
addLookDeltaInstant(yaw, pitch, deltaYawDeg, deltaPitchDeg) ==
  [yawDeg |-> yaw + deltaYawDeg, pitchDeg |-> ClampPitch(pitch + deltaPitchDeg)]

---------------------------------------------------------------------------
(* Edit operations *)

\* a candidate beside the struck face that is taken however close it is to the eye
addBlockTargetAnyDistance(hitV, hitG) ==
  LET useGround == hitG.hit /\ (~hitV.hit \/ hitG.t < hitV.t)
      none == [place |-> FALSE, ground |-> useGround, x |-> 0, y |-> 0, z |-> 0]
  IN  IF useGround
      THEN LET px == hitG.x
               pz == hitG.z
               topY == highestSolidYInColumn(px, pz)
               py == clamp(topY + 1, 0, MAX_H - 1)
           IN  IF hasBlock(px, py, pz) THEN none
               ELSE IF ~isAtLeastOneBlockAwayFromVoxel(px, py, pz) THEN none
               ELSE [place |-> TRUE, ground |-> TRUE, x |-> px, y |-> py, z |-> pz]
      ELSE IF ~hitV.hit THEN none
      ELSE LET px == hitV.x + hitV.nx
               py == hitV.y + hitV.ny
               pz == hitV.z + hitV.nz
           IN  IF px < 0 \/ px >= WORLD_W \/ pz < 0 \/ pz >= WORLD_D
                  \/ py < 0 \/ py >= MAX_H THEN none
               ELSE IF hasBlock(px, py, pz) THEN none
               ELSE [place |-> TRUE, ground |-> FALSE, x |-> px, y |-> py, z |-> pz]

\* a candidate of the ground branch on the plane itself, not above the column's top
addBlockTargetAtPlane(hitV, hitG) ==
  LET useGround == hitG.hit /\ (~hitV.hit \/ hitG.t < hitV.t)
      none == [place |-> FALSE, ground |-> useGround, x |-> 0, y |-> 0, z |-> 0]
  IN  IF useGround
      THEN LET px == hitG.x
               pz == hitG.z
               py == 0
           IN  IF hasBlock(px, py, pz) THEN none
               ELSE IF ~isAtLeastOneBlockAwayFromVoxel(px, py, pz) THEN none
               ELSE [place |-> TRUE, ground |-> TRUE, x |-> px, y |-> py, z |-> pz]
      ELSE IF ~hitV.hit THEN none
      ELSE LET px == hitV.x + hitV.nx
               py == hitV.y + hitV.ny
               pz == hitV.z + hitV.nz
           IN  IF px < 0 \/ px >= WORLD_W \/ pz < 0 \/ pz >= WORLD_D
                  \/ py < 0 \/ py >= MAX_H THEN none
               ELSE IF hasBlock(px, py, pz) THEN none
               ELSE IF ~isAtLeastOneBlockAwayFromVoxel(px, py, pz) THEN none
               ELSE [place |-> TRUE, ground |-> FALSE, x |-> px, y |-> py, z |-> pz]

\* the cell addBlockOnFace would fill, from the hits of the two rays; place tells
\* whether it does
addBlockTarget(hitV, hitG) ==
  LET useGround == hitG.hit /\ (~hitV.hit \/ hitG.t < hitV.t)
      none == [place |-> FALSE, ground |-> useGround, x |-> 0, y |-> 0, z |-> 0]
  IN  IF useGround
      THEN LET px == hitG.x
               pz == hitG.z
               topY == highestSolidYInColumn(px, pz)
               py == clamp(topY + 1, 0, MAX_H - 1)
           IN  IF hasBlock(px, py, pz) THEN none
               ELSE IF ~isAtLeastOneBlockAwayFromVoxel(px, py, pz) THEN none
               ELSE [place |-> TRUE, ground |-> TRUE, x |-> px, y |-> py, z |-> pz]
      ELSE IF ~hitV.hit THEN none
      ELSE LET px == hitV.x + hitV.nx
               py == hitV.y + hitV.ny
               pz == hitV.z + hitV.nz
           IN  IF px < 0 \/ px >= WORLD_W \/ pz < 0 \/ pz >= WORLD_D
                  \/ py < 0 \/ py >= MAX_H THEN none
               ELSE IF hasBlock(px, py, pz) THEN none
               ELSE IF ~isAtLeastOneBlockAwayFromVoxel(px, py, pz) THEN none
               ELSE [place |-> TRUE, ground |-> FALSE, x |-> px, y |-> py, z |-> pz]

\* a target that is cleared however close the hit cell is to the eye
removeBlockTargetAnyDistance(hit) ==
  IF ~hit.hit THEN [remove |-> FALSE, x |-> 0, y |-> 0, z |-> 0]
  ELSE [remove |-> TRUE, x |-> hit.x, y |-> hit.y, z |-> hit.z]

\* the cell removeBlockOnFace would clear
removeBlockTarget(hit) ==
  IF ~hit.hit THEN [remove |-> FALSE, x |-> 0, y |-> 0, z |-> 0]
  ELSE IF ~isAtLeastOneBlockAwayFromVoxel(hit.x, hit.y, hit.z)
  THEN [remove |-> FALSE, x |-> hit.x, y |-> hit.y, z |-> hit.z]
  ELSE [remove |-> TRUE, x |-> hit.x, y |-> hit.y, z |-> hit.z]

\* setSelectedBlock(idx)
setSelectedBlock(idx) == ((idx % Len(BLOCKS)) + Len(BLOCKS)) % Len(BLOCKS)

\* the slot pickBlockFromLook selects (setSelectedBlockByTex of the hit cell's texture)
pickedSlot(hit) ==
  IF ~hit.hit THEN gSelectedBlock
  ELSE IF ~hasBlock(hit.x, hit.y, hit.z) THEN gSelectedBlock
  ELSE LET tex == blockType[hit.z][hit.x][hit.y]
           slots == { i \in 1 .. Len(BLOCKS) : BLOCKS[i] = tex }
       IN  IF slots = {} THEN gSelectedBlock
           ELSE setSelectedBlock((CHOOSE i \in slots : \A j \in slots : i <= j) - 1)

---------------------------------------------------------------------------
(* Operations of the voxel world, called with arbitrary arguments *)

NoOp == [op |-> "init", args |-> <<>>, ret |-> FALSE]

PlayerStart ==
  /\ gSelectedBlock = 0
  /\ eye = <<ONE, 2 * ONE, ONE>>
  /\ yawDeg = -90
  /\ pitchDeg = 0
  /\ velY = 0
  /\ onGround = FALSE
  /\ pointerLocked = FALSE
  /\ nTicks = 0
  /\ nInputs = 0

PlayerIdle ==
  UNCHANGED <<gSelectedBlock, eye, yawDeg, pitchDeg, velY, onGround, pointerLocked, nTicks>>

CoordX == -1 .. WORLD_W
CoordZ == -1 .. WORLD_D
CoordY == -1 .. MAX_H
SlotArgs == -1 .. Len(BLOCKS)
\* heights canOccupyAt and the y-range query are asked about
HeightArgs == { -ONE, 0, ONE + ONE \div 2, EYE_HEIGHT + 2 * ONE, (MAX_H + 1) * ONE }

InitWorld ==
  /\ \E wm \in WorldMaps : columnMask = InitVoxelsMask(wm)
  /\ blockType = InitVoxelsType
  /\ columnMask12 = <<>>
  /\ InitPaint
  /\ PlayerStart
  /\ lastOp = NoOp

CallSetBlock(x, y, z, on, slotIdx) ==
  /\ nInputs' = nInputs + 1
  /\ columnMask' = SetBlockMask(x, y, z, on)
  /\ blockType' = SetBlockType(x, y, z, on, slotIdx)
  /\ lastOp' = [op |-> "setBlock", args |-> <<x, y, z, on, slotIdx>>,
                ret |-> SetBlockRet(x, y, z),
                pre |-> [columnMask |-> columnMask, blockType |-> blockType]]
  /\ UNCHANGED <<columnMask12, paint>>
  /\ PlayerIdle

CallHasBlock(x, y, z) ==
  /\ nInputs' = nInputs + 1
  /\ lastOp' = [op |-> "hasBlock", args |-> <<x, y, z>>, ret |-> hasBlock(x, y, z)]
  /\ UNCHANGED <<columnMask, blockType, columnMask12, paint>>
  /\ PlayerIdle

CallGroundLevelAt(x, z) ==
  /\ lastOp' = [op |-> "groundLevelAt", args |-> <<x, z>>, ret |-> groundLevelAt(x, z)]
  /\ nInputs' = nInputs + 1
  /\ UNCHANGED <<columnMask, blockType, columnMask12, paint>>
  /\ PlayerIdle

CallColumnHasAnyBlockInYRange(x, z, yMin, yMax) ==
  /\ lastOp' = [op |-> "columnHasAnyBlockInYRange", args |-> <<x, z, yMin, yMax>>,
                ret |-> columnHasAnyBlockInYRange(x, z, yMin, yMax)]
  /\ nInputs' = nInputs + 1
  /\ UNCHANGED <<columnMask, blockType, columnMask12, paint>>
  /\ PlayerIdle

CallCanOccupyAt(x, z, eyeY) ==
  /\ lastOp' = [op |-> "canOccupyAt", args |-> <<x, z, eyeY>>,
                ret |-> canOccupyAt(x, z, eyeY)]
  /\ nInputs' = nInputs + 1
  /\ UNCHANGED <<columnMask, blockType, columnMask12, paint>>
  /\ PlayerIdle

NextWorld ==
  /\ nInputs < MaxCalls
  /\ \/ \E x \in CoordX, y \in CoordY, z \in CoordZ, s \in SlotArgs :
          CallSetBlock(x, y, z, TRUE, s)
     \/ \E x \in CoordX, y \in CoordY, z \in CoordZ :
          CallSetBlock(x, y, z, FALSE, 0)
     \/ \E x \in CoordX, y \in CoordY, z \in CoordZ : CallHasBlock(x, y, z)
     \/ \E x \in CoordX, z \in CoordZ : CallGroundLevelAt(x, z)
     \/ \E x \in CoordX, z \in CoordZ, yMin \in HeightArgs, yMax \in HeightArgs :
          CallColumnHasAnyBlockInYRange(x, z, yMin, yMax)
     \/ \E x \in CoordX, z \in CoordZ, eyeY \in HeightArgs : CallCanOccupyAt(x, z, eyeY)

SpecWorld == InitWorld /\ [][NextWorld]_vars

---------------------------------------------------------------------------
(* The asgn3 program whose MAX_H is 12: the same column masks, still kept  *)
(* in Uint8Array rows                                                      *)

Ys12 == 0 .. (MAX_H_12 - 1)
CoordY12 == -1 .. MAX_H_12

\* height maps of the digits WORLD_LAYOUT uses (0..4): every column of the same
\* height, or heights rising with x and z
WorldMaps12 ==
  { [z \in Zs |-> [x \in Xs |-> h]] : h \in 0 .. 4 }
  \cup { [z \in Zs |-> [x \in Xs |-> clamp(h + x + 2 * z, 0, 4)]] : h \in 0 .. 2 }

initVoxelsFromHeights12(worldMap) ==
  [z \in Zs |-> [x \in Xs |->
      LET h == clamp(worldMap[z][x], 0, MAX_H_12)
      IN  ToUint8(IF h = 0 THEN 0 ELSE Shl1(h) - 1)]]

hasBlock12(x, y, z) ==
  IF x < 0 \/ x >= WORLD_W \/ z < 0 \/ z >= WORLD_D \/ y < 0 \/ y >= MAX_H_12
  THEN FALSE
  ELSE BitSet(columnMask12[z][x], y)

SetBlockRet12(x, y, z) ==
  ~(x < 0 \/ x >= WORLD_W \/ z < 0 \/ z >= WORLD_D \/ y < 0 \/ y >= MAX_H_12)

setBlock12(x, y, z, on) ==
  IF ~SetBlockRet12(x, y, z) THEN columnMask12
  ELSE LET bit == Shl1(y)
           m == columnMask12[z][x]
       IN  [columnMask12 EXCEPT ![z][x] =
              IF on THEN ToUint8(IF BitSet(m, y) THEN m ELSE m + bit)
                    ELSE ToUint8(IF BitSet(m, y) THEN m - bit ELSE m)]

Init12 ==
  /\ columnMask = InitVoxelsMask([z \in Zs |-> [x \in Xs |-> 0]])
  /\ blockType = InitVoxelsType
  /\ PlayerStart
  /\ \E wm \in WorldMaps12 :
       /\ columnMask12 = initVoxelsFromHeights12(wm)
       /\ InitPaint
       /\ lastOp = [op |-> "initVoxelsFromHeights", args |-> wm, ret |-> TRUE]

CallSetBlock12(x, y, z, on) ==
  /\ nInputs' = nInputs + 1
  /\ columnMask12' = setBlock12(x, y, z, on)
  /\ lastOp' = [op |-> "setBlock", args |-> <<x, y, z, on>>, ret |-> SetBlockRet12(x, y, z)]
  /\ UNCHANGED <<columnMask, blockType, paint>>
  /\ PlayerIdle

CallHasBlock12(x, y, z) ==
  /\ nInputs' = nInputs + 1
  /\ lastOp' = [op |-> "hasBlock", args |-> <<x, y, z>>, ret |-> hasBlock12(x, y, z)]
  /\ UNCHANGED <<columnMask, blockType, columnMask12, paint>>
  /\ PlayerIdle

Next12 ==
  /\ nInputs < MaxCalls
  /\ \/ \E x \in CoordX, y \in CoordY12, z \in CoordZ, on \in BOOLEAN :
          CallSetBlock12(x, y, z, on)
     \/ \E x \in CoordX, y \in CoordY12, z \in CoordZ : CallHasBlock12(x, y, z)

Spec12 == Init12 /\ [][Next12]_vars

---------------------------------------------------------------------------
(* The game: frames and input events, from the spawn of main()            *)

MaxTicks == 2
MaxInputs == 1

\* dtScale of a frame: dtMs / REF_DT, 1.0 at 60 frames a second; whole values keep
\* the turn of Q and E (3 degrees times dtScale) in whole degrees
DtScales == { ONE, 2 * ONE }

Keys == <<"w", "s", "a", "d", " ", "q", "e">>

\* sets of keys held during a frame
HeldKeys ==
  { {} } \cup { {Keys[i]} : i \in DOMAIN Keys }
         \cup { {"w", "d"}, {"w", "a"}, {"w", " "}, {"q", "e"} }

\* mouse movement of one event in pixels: 50 pixels of 0.18 degrees are 9 degrees;
\* vertically the mouse only moves down (the look goes from level to the lower limit)
MouseDX == { -50, 0, 50 }
MouseDY == { 0, 50 }

\* the player p after the two attempts m of a tryMove
Moved(p, m) == [p EXCEPT !.eye = m[2].eye, !.onGround = m[2].onGround, !.moves = @ \o m]

\* handleKeys: what one key does to the player p at time scale dt
HandleKey(p, k, dt) ==
  LET moveSpeed == Mul(1500, dt)
      turnSpeed == (3 * dt) \div ONE
      d == IF k = "w" THEN moveForward(p.yawDeg, moveSpeed)
           ELSE IF k = "s" THEN moveBackward(p.yawDeg, moveSpeed)
           ELSE IF k = "a" THEN moveLeft(p.yawDeg, moveSpeed)
           ELSE moveRight(p.yawDeg, moveSpeed)
  IN  IF k \in {"w", "s", "a", "d"}
      THEN Moved(p, tryMove(p.eye, p.onGround, d[1], d[2]))
      ELSE IF k = " "
      THEN IF p.onGround THEN [p EXCEPT !.velY = JUMP_V, !.onGround = FALSE] ELSE p
      ELSE IF k = "q" THEN [p EXCEPT !.yawDeg = @ - turnSpeed]
      ELSE [p EXCEPT !.yawDeg = @ + turnSpeed]

\* handleKeys(dtScale): the held keys in the order the code tests them, from the i-th
RECURSIVE handleKeys(_, _, _, _)
handleKeys(p, i, held, dt) ==
  IF i > Len(Keys) THEN p
  ELSE handleKeys(IF Keys[i] \in held THEN HandleKey(p, Keys[i], dt) ELSE p,
                  i + 1, held, dt)

\* the cell of the spawn point: the middle of the grid's width, as 16 of 32
SpawnX == WORLD_W \div 2
SpawnZ == WORLD_D \div 2

Init ==
  /\ \E wm \in WorldMaps : columnMask = InitVoxelsMask(wm)
  /\ blockType = InitVoxelsType
  /\ columnMask12 = <<>>
  /\ InitPaint
  /\ gSelectedBlock = 0
  /\ eye = <<SpawnX * ONE, groundLevelAt(SpawnX, SpawnZ) * ONE + EYE_HEIGHT, SpawnZ * ONE>>
  /\ yawDeg = -90
  /\ pitchDeg = 0
  /\ velY = 0
  /\ onGround = FALSE
  /\ pointerLocked = FALSE
  /\ nTicks = 0
  /\ nInputs = 0
  /\ lastOp = NoOp

\* what tick() does in a frame: handleKeys, then updateVerticalPhysics
Frame(dt, held) ==
  /\ \E p \in {handleKeys([eye |-> eye, yawDeg |-> yawDeg, velY |-> velY,
                           onGround |-> onGround, moves |-> <<>>], 1, held, dt)} :
     \E ph \in {updateVerticalPhysics(p.eye, p.velY, p.onGround, dt)} :
      /\ eye' = <<p.eye[1], ph.eyeY, p.eye[3]>>
      /\ yawDeg' = p.yawDeg
      /\ velY' = ph.velY
      /\ onGround' = ph.onGround
      /\ lastOp' = [op |-> "tick", args |-> <<dt, held>>,
                    ret |-> [moves |-> p.moves, eye |-> p.eye, velY |-> p.velY,
                             onGround |-> p.onGround]]
  /\ UNCHANGED <<columnMask, blockType, gSelectedBlock, pitchDeg, pointerLocked,
                 nInputs, columnMask12, paint>>

\* tick(), counted
Tick(dt, held) ==
  /\ nTicks < MaxTicks
  /\ nTicks' = nTicks + 1
  /\ Frame(dt, held)

\* the pointerlockchange listener; giving the lock up counts as an input event
PointerLockChange(locked) ==
  /\ pointerLocked' = locked
  /\ locked # pointerLocked
  /\ ~locked => nInputs < MaxInputs
  /\ nInputs' = IF locked THEN nInputs ELSE nInputs + 1
  /\ lastOp' = [op |-> "pointerlockchange", args |-> <<>>, ret |-> FALSE]
  /\ UNCHANGED <<columnMask, blockType, gSelectedBlock, eye, yawDeg, pitchDeg, velY,
                 onGround, nTicks, columnMask12, paint>>

\* the mousemove listener: camera.addLookDeltaInstant of the clamped deltas
MouseMove(dx, dy) ==
  LET cdx == Max(-60, Min(60, dx))
      cdy == Max(-60, Min(60, dy))
  IN  /\ pointerLocked
      /\ dx # 0 \/ dy # 0
      /\ dx # 0 => nInputs < MaxInputs
      /\ nInputs' = IF dx # 0 THEN nInputs + 1 ELSE nInputs
      /\ yawDeg' = yawDeg + (18 * cdx) \div 100
      /\ pitchDeg' = ClampPitch(pitchDeg - (18 * cdy) \div 100)
      /\ lastOp' = [op |-> "mousemove", args |-> <<>>, ret |-> FALSE]
      /\ UNCHANGED <<columnMask, blockType, gSelectedBlock, eye, velY, onGround,
                     pointerLocked, nTicks, columnMask12, paint>>

\* the world, the pose and the selection as an event handler finds them
Before ==
  [columnMask |-> columnMask, blockType |-> blockType, gSelectedBlock |-> gSelectedBlock,
   eye |-> eye, yawDeg |-> yawDeg, pitchDeg |-> pitchDeg, velY |-> velY,
   onGround |-> onGround]

\* removeBlockOnFace(): setBlock(hit, false) unless the ray misses or the cell is near
removeBlockOnFace ==
  \E hit \in {raycastVoxel(MAX_DIST)} :
    \E r \in {removeBlockTarget(hit)} :
      /\ columnMask' = IF r.remove THEN SetBlockMask(r.x, r.y, r.z, FALSE) ELSE columnMask
      /\ blockType' = IF r.remove THEN SetBlockType(r.x, r.y, r.z, FALSE, gSelectedBlock)
                      ELSE blockType
      /\ lastOp' = [op |-> "removeBlockOnFace", args |-> <<Before>>, ret |-> r,
                    hit |-> hit]
      /\ UNCHANGED gSelectedBlock

\* addBlockOnFace(): setBlock(candidate, true) with the selected slot
addBlockOnFace ==
  \E hitV \in {raycastVoxel(MAX_DIST)}, hitG \in {raycastGroundPlane(0, MAX_DIST)} :
    \E a \in {addBlockTarget(hitV, hitG)} :
      /\ columnMask' = IF a.place THEN SetBlockMask(a.x, a.y, a.z, TRUE) ELSE columnMask
      /\ blockType' = IF a.place THEN SetBlockType(a.x, a.y, a.z, TRUE, gSelectedBlock)
                      ELSE blockType
      /\ lastOp' = [op |-> "addBlockOnFace", args |-> <<Before>>, ret |-> a,
                    hitV |-> hitV, hitG |-> hitG]
      /\ UNCHANGED gSelectedBlock

\* a pick that takes the block it looks at out of the world
pickAndTakeBlock ==
  \E hit \in {raycastVoxel(MAX_DIST)} :
      /\ gSelectedBlock' = pickedSlot(hit)
      /\ lastOp' = [op |-> "pickBlockFromLook", args |-> <<Before>>, ret |-> hit]
      /\ columnMask' = IF hit.hit THEN SetBlockMask(hit.x, hit.y, hit.z, FALSE)
                       ELSE columnMask
      /\ UNCHANGED blockType

\* pickBlockFromLook(): select the slot of the block looked at
pickBlockFromLook ==
  \E hit \in {raycastVoxel(MAX_DIST)} :
      /\ gSelectedBlock' = pickedSlot(hit)
      /\ lastOp' = [op |-> "pickBlockFromLook", args |-> <<Before>>, ret |-> hit]
      /\ UNCHANGED <<columnMask, blockType>>

\* the mousedown listener: left removes, right adds, middle picks
MouseDown(button) ==
  /\ pointerLocked
  /\ nInputs < MaxInputs
  /\ nInputs' = nInputs + 1
  /\ IF button = 0 THEN removeBlockOnFace
     ELSE IF button = 2 THEN addBlockOnFace
     ELSE IF button = 1 THEN pickBlockFromLook
     ELSE UNCHANGED <<columnMask, blockType, gSelectedBlock, lastOp>>
  /\ UNCHANGED <<eye, yawDeg, pitchDeg, velY, onGround, pointerLocked, nTicks,
                 columnMask12, paint>>

\* the keydown listener for the hotbar keys 1..4
KeyDownSlot(k) ==
  /\ nInputs < MaxInputs
  /\ nInputs' = nInputs + 1
  /\ gSelectedBlock' = setSelectedBlock(k - 1)
  /\ lastOp' = [op |-> "setSelectedBlock", args |-> <<k - 1>>, ret |-> FALSE]
  /\ UNCHANGED <<columnMask, blockType, eye, yawDeg, pitchDeg, velY, onGround,
                 pointerLocked, nTicks, columnMask12, paint>>

\* the wheel listener: cycleSelectedBlock(dir)
Wheel(dir) ==
  /\ pointerLocked
  /\ nInputs < MaxInputs
  /\ nInputs' = nInputs + 1
  /\ gSelectedBlock' = setSelectedBlock(gSelectedBlock + dir)
  /\ lastOp' = [op |-> "cycleSelectedBlock", args |-> <<dir>>, ret |-> FALSE]
  /\ UNCHANGED <<columnMask, blockType, eye, yawDeg, pitchDeg, velY, onGround,
                 pointerLocked, nTicks, columnMask12, paint>>

Next ==
  \/ \E dt \in DtScales, held \in HeldKeys : Tick(dt, held)
  \/ \E locked \in BOOLEAN : PointerLockChange(locked)
  \/ \E dx \in MouseDX, dy \in MouseDY : MouseMove(dx, dy)
  \/ \E button \in 0 .. 3 : MouseDown(button)
  \/ \E k \in 1 .. 4 : KeyDownSlot(k)
  \/ \E dir \in {-1, 1} : Wheel(dir)

Spec == Init /\ [][Next]_vars

---------------------------------------------------------------------------
(* raycastVoxel and raycastGroundPlane from a choice of poses *)

\* eye positions: on a cell's corner, inside a cell, and from the floor to above the
\* reach of the ray
RayEyeXZ == { <<0, ONE \div 2>>, <<ONE \div 2, ONE \div 2>>, <<ONE, ONE>>,
              <<ONE + ONE \div 2, ONE \div 2>> }
RayEyeY == { EYE_HEIGHT, 4 * ONE, 5 * ONE, 4 * ONE + EYE_HEIGHT, 8 * ONE,
             8 * ONE + ONE \div 2 }
RayYaw == { -90, 30, 45, 180 }
RayPitch == { -90, -89, -45, 0, 30 }

\* worlds in which column (0,0) holds any set of blocks
InitRay ==
  /\ \E wm \in WorldMaps, m \in 0 .. (2 ^ MAX_H - 1) :
       columnMask = [InitVoxelsMask(wm) EXCEPT ![0][0] = m]
  /\ blockType = InitVoxelsType
  /\ columnMask12 = <<>>
  /\ InitPaint
  /\ gSelectedBlock = 0
  /\ \E xz \in RayEyeXZ, y \in RayEyeY : eye = <<xz[1], y, xz[2]>>
  /\ yawDeg \in RayYaw
  /\ pitchDeg \in RayPitch
  /\ velY = 0
  /\ onGround = FALSE
  /\ pointerLocked = FALSE
  /\ nTicks = 0
  /\ nInputs = 0
  /\ lastOp = NoOp

CallRaycastVoxel(maxDist) ==
  /\ nInputs' = nInputs + 1
  /\ lastOp' = [op |-> "raycastVoxel", args |-> <<maxDist>>, ret |-> raycastVoxel(maxDist),
                visits |-> RayVisits(RayConst(forwardDir, maxDist),
                                     RayStart(eye, forwardDir))]
  /\ UNCHANGED <<columnMask, blockType, columnMask12, paint>>
  /\ PlayerIdle

CallRaycastGroundPlane(yPlane, maxDist) ==
  /\ nInputs' = nInputs + 1
  /\ lastOp' = [op |-> "raycastGroundPlane", args |-> <<yPlane, maxDist>>,
                ret |-> raycastGroundPlane(yPlane, maxDist)]
  /\ UNCHANGED <<columnMask, blockType, columnMask12, paint>>
  /\ PlayerIdle

NextRay ==
  /\ nInputs < MaxCalls
  /\ \/ CallRaycastVoxel(MAX_DIST)
     \/ CallRaycastGroundPlane(0, MAX_DIST)

SpecRay == InitRay /\ [][NextRay]_vars

---------------------------------------------------------------------------
(* raycastVoxel one pass of its loop at a time, from the poses of SpecRay: *)
(* the cast of the game, and from the poses that look up from the floor a  *)
(* cast with no limit of distance, which only the count of passes ends     *)

RayLoopMasks == { 0, 5, 15 }

InitRayLoop == InitRay /\ columnMask[0][0] \in RayLoopMasks

\* the call: everything up to the loop
RayBegin(maxDist) ==
  /\ lastOp.op = "init"
  /\ maxDist = INF => (pitchDeg = 30 /\ eye[2] = EYE_HEIGHT)
  /\ lastOp' = [op |-> "raycastVoxel.loop", args |-> <<maxDist>>,
                c |-> RayConst(forwardDir, maxDist), s |-> RayStart(eye, forwardDir),
                done |-> FALSE, ret |-> NoHit]
  /\ UNCHANGED <<columnMask, blockType, columnMask12, nInputs, paint>>
  /\ PlayerIdle

\* one pass: the loop condition, the test of the current cell, the step
RayPass ==
  /\ lastOp.op = "raycastVoxel.loop"
  /\ ~lastOp.done
  /\ lastOp' = IF ~RayRunning(lastOp.c, lastOp.s) THEN [lastOp EXCEPT !.done = TRUE]
               ELSE IF RayAtBlock(lastOp.s)
               THEN [lastOp EXCEPT !.done = TRUE, !.ret = RayHit(lastOp.s)]
               ELSE [lastOp EXCEPT !.s = RayAdvance(lastOp.c, lastOp.s)]
  /\ UNCHANGED <<columnMask, blockType, columnMask12, nInputs, paint>>
  /\ PlayerIdle

NextRayLoop ==
  \/ \E maxDist \in { MAX_DIST, INF } : RayBegin(maxDist)
  \/ RayPass

\* a call that has begun runs on: nothing else runs between two passes
SpecRayLoop == InitRayLoop /\ [][NextRayLoop]_vars /\ WF_vars(NextRayLoop)

---------------------------------------------------------------------------
(* updateVerticalPhysics from a choice of heights and velocities *)

\* dtScale = dtMs / REF_DT for dtMs of 1, 16.67, 33.34 and 50 ms
PhysDtScales == { 600, ONE, 2 * ONE, 29994 }
PhysFeet == { 0, ONE \div 2, ONE, ONE + 2000, 2 * ONE, 2 * ONE + ONE \div 2, 3 * ONE,
              4 * ONE, 4 * ONE + 6000, 6 * ONE }
PhysVelY == { MAX_FALL, MAX_FALL + 100, -3000, -100, 0, 1000, JUMP_V }

\* the player in column (0,0), which holds any set of blocks the body is clear of
InitPhys ==
  /\ \E m \in 0 .. (2 ^ MAX_H - 1) :
       columnMask = [z \in Zs |-> [x \in Xs |-> IF x = 0 /\ z = 0 THEN m ELSE 0]]
  /\ blockType = InitVoxelsType
  /\ columnMask12 = <<>>
  /\ InitPaint
  /\ gSelectedBlock = 0
  /\ \E f \in PhysFeet : eye = <<ONE \div 2, f + EYE_HEIGHT, ONE \div 2>>
  /\ canOccupyAt(0, 0, eye[2])
  /\ yawDeg = -90
  /\ pitchDeg = 0
  /\ velY \in PhysVelY
  /\ onGround = FALSE
  /\ pointerLocked = FALSE
  /\ nTicks = 0
  /\ nInputs = 0
  /\ lastOp = NoOp

PhysicsStep(dt) ==
  LET ph == updateVerticalPhysics(eye, velY, onGround, dt)
  IN  /\ nTicks < MaxTicks
      /\ nTicks' = nTicks + 1
      /\ eye' = <<eye[1], ph.eyeY, eye[3]>>
      /\ velY' = ph.velY
      /\ onGround' = ph.onGround
      /\ lastOp' = [op |-> "updateVerticalPhysics", args |-> <<dt>>,
                    ret |-> [eye |-> eye, velY |-> velY, onGround |-> onGround]]
      /\ UNCHANGED <<columnMask, blockType, gSelectedBlock, yawDeg, pitchDeg,
                     pointerLocked, nInputs, columnMask12, paint>>

NextPhys == \E dt \in PhysDtScales : PhysicsStep(dt)

SpecPhys == InitPhys /\ [][NextPhys]_vars

---------------------------------------------------------------------------
(* addLookDeltaInstant called with a choice of deltas, from the camera's   *)
(* first pose                                                              *)

MaxLooks == 3

\* turns in degrees: what a key gives in a frame, what the mouse gives in an event,
\* and turns of a quarter and of more than a whole circle
LookDeltas == { -400, -90, -9, 0, 3, 90, 400 }

CallAddLookDelta(deltaYawDeg, deltaPitchDeg) ==
  /\ nInputs < MaxLooks
  /\ nInputs' = nInputs + 1
  /\ \E r \in {addLookDeltaInstant(yawDeg, pitchDeg, deltaYawDeg, deltaPitchDeg)} :
       /\ yawDeg' = r.yawDeg
       /\ pitchDeg' = r.pitchDeg
  /\ lastOp' = [op |-> "addLookDeltaInstant", args |-> <<deltaYawDeg, deltaPitchDeg>>,
                ret |-> [yawDeg |-> yawDeg, pitchDeg |-> pitchDeg]]
  /\ UNCHANGED <<columnMask, blockType, gSelectedBlock, eye, velY, onGround,
                 pointerLocked, nTicks, columnMask12, paint>>

NextLook == \E dyaw \in LookDeltas, dpitch \in LookDeltas : CallAddLookDelta(dyaw, dpitch)

SpecLook == Init /\ [][NextLook]_vars

---------------------------------------------------------------------------
(* Frames and mouse buttons for a player who stands on the top of column   *)
(* (0,0), near its edges, and looks down at it; the column holds any set   *)
(* of blocks that edits may have left                                      *)

DigYaw == { 0, 90 }

InitDig ==
  /\ \E wm \in WorldMaps, m \in 0 .. (2 ^ MAX_H - 1) :
       columnMask = [InitVoxelsMask(wm) EXCEPT ![0][0] = m]
  /\ blockType = InitVoxelsType
  /\ columnMask12 = <<>>
  /\ InitPaint
  /\ gSelectedBlock = 0
  /\ eye = <<ONE - ONE \div 10, groundLevelAt(0, 0) * ONE + EYE_HEIGHT, ONE - ONE \div 10>>
  /\ yawDeg \in DigYaw
  /\ pitchDeg = -89
  /\ velY = 0
  /\ onGround = TRUE
  /\ pointerLocked = TRUE
  /\ nTicks = 0
  /\ nInputs = 0
  /\ lastOp = NoOp

NextDig ==
  \/ \E dt \in DtScales, held \in HeldKeys : Tick(dt, held)
  \/ \E button \in 0 .. 3 : MouseDown(button)

SpecDig == InitDig /\ [][NextDig]_vars

---------------------------------------------------------------------------
(* Mouse buttons in a world that edits have been made to: column (0,0)     *)
(* holds any set of blocks, the blocks have a material, any hotbar slot    *)
(* may be selected.  The player stands on column (0,0) looking down at it, *)
(* or at the far side of column (1,0) looking at column (0,0).             *)

EditMaterials == { 0, 3 }
EditSlots == { 0, 2 }
EditPitch == { -63, -45, -18, 0 }

InitEdit ==
  /\ \E wm \in WorldMaps, m \in 0 .. (2 ^ MAX_H - 1) :
       columnMask = [InitVoxelsMask(wm) EXCEPT ![0][0] = m]
  /\ \E t \in EditMaterials :
       blockType = [z \in Zs |-> [x \in Xs |-> [y \in Ys |->
                      IF BitSet(columnMask[z][x], y) THEN t ELSE 0]]]
  /\ columnMask12 = <<>>
  /\ InitPaint
  /\ gSelectedBlock \in EditSlots
  /\ \/ /\ eye = <<ONE - ONE \div 10, groundLevelAt(0, 0) * ONE + EYE_HEIGHT,
                   ONE - ONE \div 10>>
        /\ yawDeg \in DigYaw
        /\ pitchDeg = -89
     \/ /\ eye = <<2 * ONE - ONE \div 10, groundLevelAt(1, 0) * ONE + EYE_HEIGHT,
                   ONE \div 2>>
        /\ yawDeg = 180
        /\ pitchDeg \in EditPitch
  /\ velY = 0
  /\ onGround = TRUE
  /\ pointerLocked = TRUE
  /\ nTicks = 0
  /\ nInputs = 0
  /\ lastOp = NoOp

NextEdit == \E button \in 0 .. 3 : MouseDown(button)

SpecEdit == InitEdit /\ [][NextEdit]_vars

---------------------------------------------------------------------------
(* Frames with the jump key up or down, from the same heights and          *)
(* velocities                                                              *)

NextJump == \E dt \in PhysDtScales, held \in { {}, {" "} } : Tick(dt, held)

SpecJump == InitPhys /\ [][NextJump]_vars

---------------------------------------------------------------------------
(* Frames from a choice of places: the player stands on, or hangs above,   *)
(* the top of a column, a step away from a cell's edge or the grid's       *)

WalkOffsets == { ONE \div 10, ONE - ONE \div 10, ONE + ONE \div 10 }
WalkX == WalkOffsets \cup { WORLD_W * ONE - ONE \div 10 }
WalkZ == WalkOffsets \cup { WORLD_D * ONE - ONE \div 10 }
WalkYaw == { -90, 45 }
\* feet on the ground and grounded, on the ground before the first frame found it
\* so, and half a block above it
WalkStance == { [lift |-> 0, onGround |-> TRUE], [lift |-> 0, onGround |-> FALSE],
                [lift |-> ONE \div 2, onGround |-> FALSE] }

InitWalk ==
  /\ \E wm \in WorldMaps : columnMask = InitVoxelsMask(wm)
  /\ blockType = InitVoxelsType
  /\ columnMask12 = <<>>
  /\ InitPaint
  /\ gSelectedBlock = 0
  /\ \E x \in WalkX, z \in WalkZ, st \in WalkStance :
       /\ eye = <<x, groundLevelAt(Floor(x), Floor(z)) * ONE + st.lift + EYE_HEIGHT, z>>
       /\ onGround = st.onGround
  /\ yawDeg \in WalkYaw
  /\ pitchDeg = 0
  /\ velY = 0
  /\ pointerLocked = FALSE
  /\ nTicks = 0
  /\ nInputs = 0
  /\ lastOp = NoOp

NextWalk == \E dt \in DtScales, held \in HeldKeys : Tick(dt, held)

SpecWalk == InitWalk /\ [][NextWalk]_vars

---------------------------------------------------------------------------
(* handleKeys alone, from the same places *)

CallHandleKeys(dt, held) ==
  /\ nInputs < MaxCalls
  /\ nInputs' = nInputs + 1
  /\ \E p \in {handleKeys([eye |-> eye, yawDeg |-> yawDeg, velY |-> velY,
                           onGround |-> onGround, moves |-> <<>>], 1, held, dt)} :
       /\ eye' = p.eye
       /\ yawDeg' = p.yawDeg
       /\ velY' = p.velY
       /\ onGround' = p.onGround
  /\ lastOp' = [op |-> "handleKeys", args |-> <<dt, held>>,
                ret |-> [eye |-> eye, yawDeg |-> yawDeg, velY |-> velY,
                         onGround |-> onGround]]
  /\ UNCHANGED <<columnMask, blockType, gSelectedBlock, pitchDeg, pointerLocked,
                 nTicks, columnMask12, paint>>

NextKeys == \E dt \in DtScales, held \in HeldKeys : CallHandleKeys(dt, held)

SpecKeys == InitWalk /\ [][NextKeys]_vars

---------------------------------------------------------------------------
(* Frames from the places of SpecWalk where the player is grounded, and    *)
(* after the counted ones the frames that requestAnimationFrame keeps      *)
(* asking for, with no key held                                            *)

FrameAfter(dt) ==
  /\ nTicks = MaxTicks
  /\ UNCHANGED nTicks
  /\ Frame(dt, {})

\* the grounded starts of InitWalk
InitLedge == InitWalk /\ onGround

NextLedge ==
  \/ \E dt \in DtScales, held \in HeldKeys : Tick(dt, held)
  \/ FrameAfter(2 * ONE)

SpecLedge == InitLedge /\ [][NextLedge]_vars /\ WF_vars(FrameAfter(2 * ONE))

---------------------------------------------------------------------------
(* Frames that go on without a key: a player beside column (0,0), which    *)
(* holds a tower of any height, jumps or walks in the counted frames, and  *)
(* requestAnimationFrame keeps asking for frames between and after them    *)

\* dtScale = dtMs / REF_DT for dtMs of 3.33, 16.67, 34.67 and 49.84 ms
LandDtScales == { 2000, ONE, 20800, 29900 }
LandHeld == { {" "}, {"w"} }
LandMasks == { 0, 1, 7 }

InitLand ==
  /\ \E m \in LandMasks :
       columnMask = [z \in Zs |-> [x \in Xs |-> IF x = 0 /\ z = 0 THEN m ELSE 0]]
  /\ blockType = InitVoxelsType
  /\ columnMask12 = <<>>
  /\ InitPaint
  /\ gSelectedBlock = 0
  /\ eye = <<ONE + ONE \div 10, EYE_HEIGHT, ONE \div 2>>
  /\ yawDeg = 180
  /\ pitchDeg = 0
  /\ velY = 0
  /\ onGround = TRUE
  /\ pointerLocked = FALSE
  /\ nTicks = 0
  /\ nInputs = 0
  /\ lastOp = NoOp

\* a frame of tick() with no key held; while the player is in the air the frames
\* come at the pace of the frame before
IdleFrame(dt) ==
  /\ IF onGround \/ lastOp.op # "tick" THEN TRUE ELSE dt = lastOp.args[1]
  /\ UNCHANGED nTicks
  /\ Frame(dt, {})

NextIdle == \E dt \in LandDtScales : IdleFrame(dt)

NextLand ==
  \/ \E dt \in LandDtScales, held \in LandHeld : Tick(dt, held)
  \/ NextIdle

SpecLand == InitLand /\ [][NextLand]_vars /\ WF_vars(NextIdle)

---------------------------------------------------------------------------
(* The asgn0 paint program: strokes, Clear, Draw Picture, undo and redo    *)

\* clicks land on one of two points of the canvas; a shape is its type and place
Points == { 1, 2 }
MaxActions == 3
MaxShapes == 2

\* the triangles drawMyPicture adds: 2 + 2 + 1 + 1 + 18 + 2 and 50 for the initials
PictureTris == 74
Picture == [i \in 1 .. PictureTris |-> [type |-> "custom", at |-> i]]

\* the variables of the other programs
game == <<columnMask, blockType, gSelectedBlock, eye, yawDeg, pitchDeg, velY,
          onGround, pointerLocked, nTicks, nInputs, columnMask12>>

PaintOps == { "mousedown", "mousemove", "mouseup", "mouseleave", "clear",
              "drawMyPicture", "undo", "redo", "brushMode" }

\* what the operation before did, for the record of a redo
PrevOf ==
  IF lastOp.op \in { "undo", "redo" }
  THEN [op |-> lastOp.op, ret |-> lastOp.ret, before |-> lastOp.before]
  ELSE IF lastOp.op \in PaintOps
  THEN [op |-> lastOp.op, ret |-> lastOp.ret, before |-> <<>>]
  ELSE [op |-> "init", ret |-> FALSE, before |-> <<>>]

\* the record of a handler of the paint program; the other programs stand still
PaintOp(op, args, ret) ==
  /\ lastOp' = [op |-> op, args |-> args, ret |-> ret]
  /\ UNCHANGED game

\* the record of undo(), with the list it found
UndoOp(ret) ==
  /\ lastOp' = [op |-> "undo", args |-> <<>>, ret |-> ret, before |-> shapesList]
  /\ UNCHANGED game

\* the record of redo(), with the list it found and the operation it came after
RedoOp(ret) ==
  /\ lastOp' = [op |-> "redo", args |-> <<>>, ret |-> ret, before |-> shapesList,
                prev |-> PrevOf]
  /\ UNCHANGED game

\* the number of shapes in the list that strokes have put there
Drawn == Len(SelectSeq(shapesList, LAMBDA sh : sh.type = "square"))

\* the last n elements of s, all of s when it is shorter: splice(-n, n)
LastN(s, n) == SubSeq(s, Max(Len(s) - n, 0) + 1, Len(s))
ButLastN(s, n) == SubSeq(s, 1, Max(Len(s) - n, 0))

\* endAction() after count shapes of the action: the undo and the redo stack
endActionUndo(count) ==
  IF count > 0 THEN Append(undoStack, [type |-> "add", count |-> count]) ELSE undoStack
endActionRedo(count) == IF count > 0 THEN <<>> ELSE redoStack

\* canvas.onmousedown: beginAction, one shape by click(ev), and in click mode the
\* action ends at once (the record says whether it did); the button goes down
\* when it is up
CanvasMouseDown(p) ==
  /\ ~g_isDragging
  /\ Len(undoStack) < MaxActions
  /\ Drawn < MaxShapes
  /\ shapesList' = Append(shapesList, [type |-> "square", at |-> p])
  /\ IF g_brushMode = "click"
     THEN /\ g_isDragging' = FALSE
          /\ undoStack' = endActionUndo(1)
          /\ redoStack' = endActionRedo(1)
          /\ g_strokeCount' = 0
     ELSE /\ g_isDragging' = TRUE
          /\ g_strokeCount' = 1
          /\ UNCHANGED <<undoStack, redoStack>>
  /\ UNCHANGED g_brushMode
  /\ PaintOp("mousedown", <<p>>, g_brushMode = "click")

\* canvas.onmousemove: another shape while a drag stroke is in progress
CanvasMouseMove(p, buttons) ==
  /\ Drawn < MaxShapes
  /\ IF g_isDragging /\ g_brushMode = "drag" /\ buttons = 1
     THEN /\ shapesList' = Append(shapesList, [type |-> "square", at |-> p])
          /\ g_strokeCount' = g_strokeCount + 1
     ELSE UNCHANGED <<shapesList, g_strokeCount>>
  /\ UNCHANGED <<undoStack, redoStack, g_isDragging, g_brushMode>>
  /\ PaintOp("mousemove", <<p, buttons>>,
             g_isDragging /\ g_brushMode = "drag" /\ buttons = 1)

\* canvas.onmouseup and canvas.onmouseleave: the stroke in progress ends
CanvasMouseUp(op) ==
  /\ IF g_isDragging
     THEN /\ g_isDragging' = FALSE
          /\ undoStack' = endActionUndo(g_strokeCount)
          /\ redoStack' = endActionRedo(g_strokeCount)
          /\ g_strokeCount' = 0
     ELSE UNCHANGED <<undoStack, redoStack, g_strokeCount, g_isDragging>>
  /\ UNCHANGED <<shapesList, g_brushMode>>
  /\ PaintOp(op, <<>>, g_isDragging)

\* dragModeBtn.onclick and clickModeBtn.onclick; the pointer that clicks a button
\* has left the canvas, so that no stroke is in progress
BrushModeBtn(mode) ==
  /\ ~g_isDragging
  /\ g_brushMode' = mode
  /\ UNCHANGED <<shapesList, undoStack, redoStack, g_strokeCount, g_isDragging>>
  /\ PaintOp("brushMode", <<mode>>, TRUE)

\* clearBtn.onclick
ClearBtn ==
  /\ ~g_isDragging
  /\ Len(undoStack) < MaxActions
  /\ undoStack' = Append(undoStack, [type |-> "clear", prev |-> shapesList])
  /\ shapesList' = <<>>
  /\ redoStack' = <<>>
  /\ UNCHANGED <<g_strokeCount, g_isDragging, g_brushMode>>
  /\ PaintOp("clear", <<>>, TRUE)

\* drawMyPicture(): the list is wiped as by Clear, then the picture is added
drawMyPicture ==
  /\ ~g_isDragging
  /\ Len(undoStack) < MaxActions
  /\ undoStack' = Append(undoStack, [type |-> "clear", prev |-> shapesList])
  /\ redoStack' = <<>>
  /\ shapesList' = Picture
  /\ UNCHANGED <<g_strokeCount, g_isDragging, g_brushMode>>
  /\ PaintOp("drawMyPicture", <<>>, TRUE)

\* undo(), by its button or by Ctrl+Z, between strokes
undo ==
  /\ ~g_isDragging
  /\ IF undoStack = <<>>
     THEN UNCHANGED <<shapesList, undoStack, redoStack>>
     ELSE \E action \in {undoStack[Len(undoStack)]} :
            /\ undoStack' = SubSeq(undoStack, 1, Len(undoStack) - 1)
            /\ IF action.type = "add"
               THEN /\ shapesList' = ButLastN(shapesList, action.count)
                    /\ redoStack' = Append(redoStack,
                         [type |-> "add", shapes |-> LastN(shapesList, action.count)])
               ELSE /\ shapesList' = action.prev
                    /\ redoStack' = Append(redoStack,
                         [type |-> "clear", prev |-> action.prev])
  /\ UNCHANGED <<g_strokeCount, g_isDragging, g_brushMode>>
  /\ UndoOp(undoStack # <<>>)

\* redo(), by its button or by Ctrl+Y, between strokes
redo ==
  /\ ~g_isDragging
  /\ IF redoStack = <<>>
     THEN UNCHANGED <<shapesList, undoStack, redoStack>>
     ELSE \E action \in {redoStack[Len(redoStack)]} :
            /\ redoStack' = SubSeq(redoStack, 1, Len(redoStack) - 1)
            /\ IF action.type = "add"
               THEN /\ shapesList' = shapesList \o action.shapes
                    /\ undoStack' = Append(undoStack,
                         [type |-> "add", count |-> Len(action.shapes)])
               ELSE /\ undoStack' = Append(undoStack,
                         [type |-> "clear", prev |-> shapesList])
                    /\ shapesList' = <<>>
  /\ UNCHANGED <<g_strokeCount, g_isDragging, g_brushMode>>
  /\ RedoOp(redoStack # <<>>)

\* the page as loaded
InitPaintPage ==
  /\ columnMask = InitVoxelsMask([z \in Zs |-> [x \in Xs |-> 0]])
  /\ blockType = InitVoxelsType
  /\ PlayerStart
  /\ columnMask12 = <<>>
  /\ InitPaint
  /\ lastOp = NoOp

NextPaint ==
  \/ \E p \in Points : CanvasMouseDown(p)
  \/ \E p \in Points, buttons \in { 0, 1 } : CanvasMouseMove(p, buttons)
  \/ \E op \in { "mouseup", "mouseleave" } : CanvasMouseUp(op)
  \/ \E mode \in { "drag", "click" } : BrushModeBtn(mode)
  \/ ClearBtn
  \/ drawMyPicture
  \/ undo
  \/ redo

SpecPaint == InitPaintPage /\ [][NextPaint]_vars

---------------------------------------------------------------------------
(* Claims about the voxel world *)

InGrid(x, y, z) == x \in Xs /\ y \in Ys /\ z \in Zs

\* the texture of hotbar slot s, the slot and the texture each held to 0..3
SlotTexture(s) == IF s < 0 THEN 0 ELSE IF s > 3 THEN 3 ELSE s

Occupied(x, z) == { y \in Ys : hasBlock(x, y, z) }
TopOf(S) == CHOOSE y \in S : \A w \in S : w <= y

\* C8: for every column, highestSolidYInColumn is the largest occupied y (-1 for
\* an empty column) and groundLevelAt is that plus one, or 0 for an empty column.
C8_GroundLevelIsTopPlusOne ==
  \A x \in CoordX, z \in CoordZ :
    IF Occupied(x, z) = {}
    THEN highestSolidYInColumn(x, z) = -1 /\ groundLevelAt(x, z) = 0
    ELSE /\ highestSolidYInColumn(x, z) = TopOf(Occupied(x, z))
         /\ groundLevelAt(x, z) = TopOf(Occupied(x, z)) + 1

\* groundLevelAt was asked about a column with a gap below its top block
C8_Witness ==
  /\ lastOp.op = "groundLevelAt"
  /\ LET x == lastOp.args[1]
         z == lastOp.args[2]
     IN  /\ inBoundsXZ(x, z)
         /\ \E y \in Ys : ~hasBlock(x, y, z) /\ hasBlock(x, y + 1, z)
         /\ lastOp.ret = TopOf(Occupied(x, z)) + 1

\* C10: outside [0,W)x[0,D) hasBlock answers false, columnHasAnyBlockInYRange
\* answers true and canOccupyAt answers false, whatever the other arguments.
C10_OutOfRangeAsymmetry ==
  /\ (lastOp.op = "hasBlock" /\ ~inBoundsXZ(lastOp.args[1], lastOp.args[3]))
       => lastOp.ret = FALSE
  /\ (lastOp.op = "columnHasAnyBlockInYRange" /\ ~inBoundsXZ(lastOp.args[1], lastOp.args[2]))
       => lastOp.ret = TRUE
  /\ (lastOp.op = "canOccupyAt" /\ ~inBoundsXZ(lastOp.args[1], lastOp.args[2]))
       => lastOp.ret = FALSE

\* a column outside the grid was reported blocked over a range holding no block
C10_Witness ==
  /\ lastOp.op = "columnHasAnyBlockInYRange"
  /\ ~inBoundsXZ(lastOp.args[1], lastOp.args[2])
  /\ lastOp.ret = TRUE
  /\ \A y \in CoordY : ~hasBlock(lastOp.args[1], y, lastOp.args[2])

\* C4: with MAX_H = 12 every level of a column can be stored: setBlock(x,y,z,true)
\* on a cell of the grid makes hasBlock(x,y,z) true, and a column built from
\* height h has exactly the bits 0..h-1 set.
C4_MaskHoldsEveryLevel ==
  /\ (lastOp.op = "setBlock" /\ lastOp.args[4]
        /\ lastOp.args[1] \in Xs /\ lastOp.args[2] \in Ys12 /\ lastOp.args[3] \in Zs)
       => hasBlock12(lastOp.args[1], lastOp.args[2], lastOp.args[3])
  /\ lastOp.op = "initVoxelsFromHeights"
       => \A x \in Xs, z \in Zs, y \in Ys12 :
            hasBlock12(x, y, z) <=> y < clamp(lastOp.args[z][x], 0, MAX_H_12)

---------------------------------------------------------------------------
(* Claims about the player in the game *)

FeetOf(e) == e[2] - EYE_HEIGHT
HeadOf(e) == FeetOf(e) + PLAYER_HEIGHT

\* the cell at height y meets the body span (feetY + EPS, headY - EPS) of eye e
BodyMeetsCell(e, y) ==
  /\ y * ONE < HeadOf(e) - EPS
  /\ (y + 1) * ONE > FeetOf(e) + EPS

\* C1: in every reachable state, no occupied cell of the player's column meets the
\* player's body span (feetY + EPS, headY - EPS)
C1_BodyNeverOverlapsBlock ==
  \A y \in Ys : hasBlock(Floor(eye[1]), y, Floor(eye[3])) => ~BodyMeetsCell(eye, y)

\* C2: addBlockOnFace never fills a cell of the player's column that meets the
\* player's body span: such a candidate is rejected
C2_AddNeverInsidePlayer ==
  (lastOp.op = "addBlockOnFace" /\ lastOp.ret.place) =>
    ~(/\ lastOp.ret.x = Floor(eye[1])
      /\ lastOp.ret.z = Floor(eye[3])
      /\ BodyMeetsCell(eye, lastOp.ret.y))

\* the highest surface of column (x, z) at or below height h: a block's top, or 0
SurfaceAtOrBelow(x, z, h) ==
  LET tops == { (y + 1) * ONE : y \in { w \in Ys : hasBlock(x, w, z) } } \cup {0}
      under == { t \in tops : t <= h }
  IN  IF under = {} THEN 0 ELSE CHOOSE t \in under : \A u \in under : u <= t

\* one attempt of tryMove by a grounded player that rests on the floor of its column
RestingAttempt(m) ==
  /\ m.grounded
  /\ inBoundsXZ(Floor(m.tx), Floor(m.tz))
  /\ <<Floor(m.tx), Floor(m.tz)>> # <<Floor(m.from[1]), Floor(m.from[3])>>
  /\ FeetOf(m.from) = SurfaceAtOrBelow(Floor(m.from[1]), Floor(m.from[3]), FeetOf(m.from))
  /\ \A y \in Ys : hasBlock(Floor(m.from[1]), y, Floor(m.from[3])) => ~BodyMeetsCell(m.from, y)

\* the target column has a floor exactly STEP_HEIGHT above the player's, with room
\* for the body on it
StepUpTarget(m) ==
  LET tx == Floor(m.tx)
      tz == Floor(m.tz)
      floor == FeetOf(m.from) + STEP_HEIGHT
  IN  /\ SurfaceAtOrBelow(tx, tz, floor) = floor
      /\ \A y \in Ys : hasBlock(tx, y, tz) =>
           ~BodyMeetsCell(<<m.tx, floor + EYE_HEIGHT, m.tz>>, y)

\* the target column is a pillar from the player's floor to more than STEP_HEIGHT above
PillarTarget(m) ==
  LET tx == Floor(m.tx)
      tz == Floor(m.tz)
      top == groundLevelAt(tx, tz) * ONE
  IN  /\ top > FeetOf(m.from) + STEP_HEIGHT
      /\ \A y \in Ys : (y * ONE >= FeetOf(m.from) /\ y * ONE < top) => hasBlock(tx, y, tz)

\* C6: a grounded player's move into a column whose floor is exactly STEP_HEIGHT
\* above its own is committed with the eye at that floor + EYE_HEIGHT; a move into
\* a column whose floor is more than STEP_HEIGHT above is rejected and leaves the
\* eye where it was
C6_StepUpBoundary ==
  lastOp.op = "tick" =>
    \A i \in DOMAIN lastOp.ret.moves :
      LET m == lastOp.ret.moves[i]
      IN  RestingAttempt(m) =>
            /\ StepUpTarget(m) =>
                 /\ m.ok
                 /\ m.eye = <<m.tx, FeetOf(m.from) + STEP_HEIGHT + EYE_HEIGHT, m.tz>>
            /\ PillarTarget(m) => (~m.ok /\ m.eye = m.from)

\* a frame in which one attempt was rejected by a pillar and another stepped up
C6_Witness ==
  /\ lastOp.op = "tick"
  /\ \E i \in DOMAIN lastOp.ret.moves :
       LET m == lastOp.ret.moves[i]
       IN  RestingAttempt(m) /\ StepUpTarget(m) /\ m.ok /\ m.eye[2] = m.from[2] + STEP_HEIGHT
  /\ \E i \in DOMAIN lastOp.ret.moves :
       LET m == lastOp.ret.moves[i]
       IN  RestingAttempt(m) /\ PillarTarget(m) /\ ~m.ok

\* the cells and the pose are as the record b of an earlier state has them
SameWorldAndPose(b) ==
  /\ columnMask = b.columnMask /\ blockType = b.blockType
  /\ eye = b.eye /\ yawDeg = b.yawDeg /\ pitchDeg = b.pitchDeg
  /\ velY = b.velY /\ onGround = b.onGround

---------------------------------------------------------------------------
(* Claims about the raycast and the vertical physics *)

TopsAtOrBelow(e, h) ==
  { (y + 1) * ONE : y \in { w \in Ys : hasBlock(Floor(e[1]), w, Floor(e[3]))
                                       /\ (w + 1) * ONE <= h } }

\* the velocity updateVerticalPhysics integrates with
FallVelocity(v, dt) == Max(MAX_FALL, v + Mul(GRAVITY, dt))

\* C5: when the player's column has an occupied cell whose top is at or below the
\* feet at the start of updateVerticalPhysics, the feet do not end below the highest
\* such top, and a fall that would carry them below it ends on it exactly, with
\* velY = 0 and onGround = true
C5_NoTunneling ==
  lastOp.op = "updateVerticalPhysics" =>
    LET old == lastOp.ret
        dt == lastOp.args[1]
        tops == TopsAtOrBelow(old.eye, FeetOf(old.eye))
        S == CHOOSE t \in tops : \A u \in tops : u <= t
        v == FallVelocity(old.velY, dt)
    IN  tops # {} =>
          /\ FeetOf(eye) >= S
          /\ (v <= 0 /\ FeetOf(old.eye) + Mul(v, dt) < S) =>
               (FeetOf(eye) = S /\ velY = 0 /\ onGround)

\* a fall of more than a cell in one step onto a floor one cell thick
C5_Witness ==
  /\ lastOp.op = "updateVerticalPhysics"
  /\ LET old == lastOp.ret
         dt == lastOp.args[1]
         tops == TopsAtOrBelow(old.eye, FeetOf(old.eye))
         S == CHOOSE t \in tops : \A u \in tops : u <= t
         v == FallVelocity(old.velY, dt)
     IN  /\ tops # {}
         /\ Mul(v, dt) < -ONE
         /\ FeetOf(old.eye) > S
         /\ FeetOf(old.eye) + Mul(v, dt) < S - ONE
         /\ S >= 2 * ONE
         /\ ~hasBlock(0, S \div ONE - 2, 0)
         /\ FeetOf(eye) = S /\ velY = 0 /\ onGround

---------------------------------------------------------------------------
(* World construction: parseWorld32 of a layout text.  A layout is the     *)
(* sequence of its lines, a line the sequence of its characters.           *)

\* characters a layout is written with here, and String.charCodeAt of each
LayoutChars == <<" ", "1", "5">>
charCodeAt(c) == IF c = " " THEN 32 ELSE IF c = "1" THEN 49 ELSE 53

\* String.trim of one line: white space off both ends
RECURSIVE trimStart(_)
trimStart(line) ==
  IF line # <<>> /\ Head(line) = " " THEN trimStart(Tail(line)) ELSE line

RECURSIVE trimEnd(_)
trimEnd(line) ==
  IF line # <<>> /\ line[Len(line)] = " "
  THEN trimEnd(SubSeq(line, 1, Len(line) - 1)) ELSE line

trim(line) == trimEnd(trimStart(line))

\* String.trim of the whole text: blank lines off both ends (the white space
\* it takes off the first and the last line, parseWorld32 takes off again)
RECURSIVE trimTextStart(_)
trimTextStart(lines) ==
  IF Len(lines) > 1 /\ trim(Head(lines)) = <<>> THEN trimTextStart(Tail(lines))
  ELSE lines

RECURSIVE trimTextEnd(_)
trimTextEnd(lines) ==
  IF Len(lines) > 1 /\ trim(lines[Len(lines)]) = <<>>
  THEN trimTextEnd(SubSeq(lines, 1, Len(lines) - 1)) ELSE lines

trimText(lines) == trimTextEnd(trimTextStart(lines))

\* parseWorld32(layoutStr): the height map, or the error it throws
parseWorld32(lines) ==
  IF Len(lines) # WORLD_D THEN [ok |-> FALSE, error |-> "lines"]
  ELSE IF \E z \in Zs : Len(trim(lines[z + 1])) # WORLD_W
  THEN [ok |-> FALSE, error |-> "chars"]
  ELSE [ok |-> TRUE,
        map |-> [z \in Zs |-> [x \in Xs |->
                   Max(0, Min(MAX_H, charCodeAt(trim(lines[z + 1])[x + 1]) - 48))]]]

\* lines of up to n characters, texts of up to n lines
LinesUpTo(n) == UNION { [1 .. k -> { LayoutChars[i] : i \in DOMAIN LayoutChars }] : k \in 0 .. n }
LayoutsUpTo(n) == UNION { [1 .. k -> LinesUpTo(WORLD_W + 1)] : k \in 0 .. n }

InitBuild ==
  /\ columnMask = <<>>
  /\ blockType = <<>>
  /\ columnMask12 = <<>>
  /\ InitPaint
  /\ PlayerStart
  /\ lastOp = NoOp

\* the load of the script: worldMap = parseWorld32(WORLD_LAYOUT) with the layout
\* text trimmed, then initVoxelsFromHeights in main() unless the parse threw
BuildWorld(text) ==
  /\ \E r \in {parseWorld32(trimText(text))} :
       /\ lastOp' = [op |-> "parseWorld32", args |-> <<text>>, ret |-> r]
       /\ columnMask' = IF r.ok THEN InitVoxelsMask(r.map) ELSE columnMask
       /\ blockType' = IF r.ok THEN InitVoxelsType ELSE blockType
  /\ UNCHANGED <<columnMask12, nInputs, paint>>
  /\ PlayerIdle

\* the script is loaded once
NextBuild ==
  /\ lastOp.op = "init"
  /\ \E text \in LayoutsUpTo(WORLD_D + 1) : BuildWorld(text)

SpecBuild == InitBuild /\ [][NextBuild]_vars

\* a layout of exactly D rows of exactly W characters, each a digit 0..H
WellFormedLayout(text) ==
  /\ Len(text) = WORLD_D
  /\ \A i \in 1 .. Len(text) :
       /\ Len(text[i]) = WORLD_W
       /\ \A j \in 1 .. Len(text[i]) :
            charCodeAt(text[i][j]) - 48 \in 0 .. MAX_H

\* C11: construction fails for every layout that is not exactly D rows of exactly
\* W characters, each a digit in 0..H: none is accepted trimmed or clamped
C11_MalformedLayoutFails ==
  (lastOp.op = "parseWorld32" /\ ~WellFormedLayout(lastOp.args[1])) => ~lastOp.ret.ok

---------------------------------------------------------------------------
(* Claims about the player in the game *)

\* the attempts of the tryMove calls of the last frame
MovesOfTick == IF lastOp.op = "tick" THEN lastOp.ret.moves ELSE <<>>

\* C12: the eye's column is inside the grid in every state, and a single-axis
\* attempt whose target column is outside the grid is rejected and leaves the eye
\* where it was
C12_PlayerStaysInGrid ==
  /\ inBoundsXZ(Floor(eye[1]), Floor(eye[3]))
  /\ \A i \in DOMAIN MovesOfTick :
       ~inBoundsXZ(Floor(MovesOfTick[i].tx), Floor(MovesOfTick[i].tz))
         => (~MovesOfTick[i].ok /\ MovesOfTick[i].eye = MovesOfTick[i].from)

\* a frame in which the player walked against the edge of the grid
C12_Witness ==
  /\ inBoundsXZ(Floor(eye[1]), Floor(eye[3]))
  /\ \E i \in DOMAIN MovesOfTick :
       /\ ~inBoundsXZ(Floor(MovesOfTick[i].tx), Floor(MovesOfTick[i].tz))
       /\ MovesOfTick[i].from # <<MovesOfTick[i].tx, MovesOfTick[i].from[2], MovesOfTick[i].tz>>
       /\ ~MovesOfTick[i].ok
       /\ MovesOfTick[i].eye = MovesOfTick[i].from

\* C13: after any sequence of look updates the pitch is within [-89, 89], and each
\* update adds its whole delta to the yaw, which is held to no range
C13_PitchClampedYawFree ==
  /\ pitchDeg >= -89 /\ pitchDeg <= 89
  /\ lastOp.op = "addLookDeltaInstant" => yawDeg = lastOp.ret.yawDeg + lastOp.args[1]

\* looks that went past both limits of the pitch, and a yaw beyond a whole turn
C13_Witness ==
  /\ lastOp.op = "addLookDeltaInstant"
  /\ lastOp.ret.pitchDeg = 89
  /\ lastOp.ret.pitchDeg + lastOp.args[2] < -89
  /\ pitchDeg = -89
  /\ yawDeg > 360

\* C14: in every state the vertical velocity is between the terminal fall speed
\* and the jump impulse
C14_VelocityBounded == MAX_FALL <= velY /\ velY <= JUMP_V

\* a frame that held a fall at the terminal speed, in the air
C14_Witness ==
  /\ lastOp.op = "tick"
  /\ lastOp.ret.velY + Mul(GRAVITY, lastOp.args[1]) < MAX_FALL
  /\ velY = MAX_FALL
  /\ ~onGround

---------------------------------------------------------------------------
(* Claims about the voxel world, continued *)

\* C15: setBlock with a coordinate out of range returns false and changes nothing;
\* in range it returns true, leaves the addressed cell occupied or empty as asked,
\* and leaves the occupancy and the material of every other cell as they were
C15_SetBlockTouchesOneCell ==
  lastOp.op = "setBlock" =>
    IF ~InGrid(lastOp.args[1], lastOp.args[2], lastOp.args[3])
    THEN /\ lastOp.ret = FALSE
         /\ columnMask = lastOp.pre.columnMask
         /\ blockType = lastOp.pre.blockType
    ELSE /\ lastOp.ret = TRUE
         /\ hasBlock(lastOp.args[1], lastOp.args[2], lastOp.args[3]) = lastOp.args[4]
         /\ \A x \in Xs, y \in Ys, z \in Zs :
              <<x, y, z>> # <<lastOp.args[1], lastOp.args[2], lastOp.args[3]>> =>
                /\ hasBlock(x, y, z) = BitSet(lastOp.pre.columnMask[z][x], y)
                /\ blockType[z][x][y] = lastOp.pre.blockType[z][x][y]
         /\ \A x \in Xs, z \in Zs :
              <<x, z>> # <<lastOp.args[1], lastOp.args[3]>> =>
                columnMask[z][x] = lastOp.pre.columnMask[z][x]

\* a block was put into an empty cell, two or more levels below a block of its
\* column to which a first call had given a material
C15_Witness ==
  /\ lastOp.op = "setBlock"
  /\ InGrid(lastOp.args[1], lastOp.args[2], lastOp.args[3])
  /\ lastOp.args[4]
  /\ ~BitSet(lastOp.pre.columnMask[lastOp.args[3]][lastOp.args[1]], lastOp.args[2])
  /\ \E y \in Ys :
       /\ y > lastOp.args[2] + 1
       /\ hasBlock(lastOp.args[1], y, lastOp.args[3])
       /\ blockType[lastOp.args[3]][lastOp.args[1]][y] # 0
  /\ hasBlock(lastOp.args[1], lastOp.args[2], lastOp.args[3])

---------------------------------------------------------------------------
(* Claims about the keys *)

\* C16: handleKeys with Q alone or E alone held changes the height of the eye
C16_QAndEMoveUpAndDown ==
  (lastOp.op = "handleKeys" /\ lastOp.args[2] \in { {"q"}, {"e"} }) =>
    eye[2] # lastOp.ret.eye[2]

---------------------------------------------------------------------------
(* Claims about updateVerticalPhysics, continued *)

\* the bottom faces of the blocks of the player's column from height lo up to,
\* but not at, height hi
BottomsBetween(e, lo, hi) ==
  { y * ONE : y \in { w \in Ys : /\ hasBlock(Floor(e[1]), w, Floor(e[3]))
                                 /\ lo <= w * ONE /\ w * ONE < hi } }

\* C17: when the velocity after integration is upward and the column has a block
\* whose bottom face lies from the old head level up to the new one, the head ends
\* on the lowest such face with velY = 0; and after an upward step no block that
\* was above the head has its bottom face below the head
C17_CeilingSweep ==
  lastOp.op = "updateVerticalPhysics" =>
    LET old == lastOp.ret
        v == FallVelocity(old.velY, lastOp.args[1])
        newHead == HeadOf(old.eye) + Mul(v, lastOp.args[1])
        faces == BottomsBetween(old.eye, HeadOf(old.eye), newHead)
    IN  v > 0 =>
          /\ faces # {} =>
               /\ HeadOf(eye) = CHOOSE f \in faces : \A h \in faces : f <= h
               /\ velY = 0
          /\ BottomsBetween(old.eye, HeadOf(old.eye), HeadOf(eye)) = {}

\* a jump that would have carried the head into the block above it
C17_Witness ==
  /\ lastOp.op = "updateVerticalPhysics"
  /\ lastOp.ret.velY = JUMP_V
  /\ LET old == lastOp.ret
         v == FallVelocity(old.velY, lastOp.args[1])
         newHead == HeadOf(old.eye) + Mul(v, lastOp.args[1])
         faces == BottomsBetween(old.eye, HeadOf(old.eye), newHead)
     IN  /\ faces # {}
         /\ \A f \in faces : HeadOf(old.eye) < f
         /\ HeadOf(eye) \in faces
         /\ HeadOf(eye) > HeadOf(old.eye)
         /\ velY = 0

\* the floor surfaces of the column of eye e: the tops of its blocks, and y = 0
FloorSurfaces(e) ==
  {0} \cup { (y + 1) * ONE : y \in { w \in Ys : hasBlock(Floor(e[1]), w, Floor(e[3])) } }

\* C18: when updateVerticalPhysics ends with onGround = true, velY is 0 and the
\* feet are within 1e-3 of a floor surface of the player's column; when it ends
\* with the player moving upward, onGround is false
C18_GroundedMeansAtRest ==
  lastOp.op \in {"updateVerticalPhysics", "tick"} =>
    /\ onGround =>
         /\ velY = 0
         /\ \E s \in FloorSurfaces(eye) : Abs(FeetOf(eye) - s) <= 10 * EPS
    /\ velY > 0 => ~onGround

\* a fall that ended on the top of a block, not on the ground plane
C18_Witness ==
  /\ lastOp.op = "updateVerticalPhysics"
  /\ lastOp.ret.velY < 0
  /\ FeetOf(lastOp.ret.eye) > FeetOf(eye)
  /\ onGround
  /\ velY = 0
  /\ FeetOf(eye) > 0
  /\ FeetOf(eye) \in FloorSurfaces(eye)

---------------------------------------------------------------------------
(* Claims about tryMove *)

\* the floor under the feet and the floor of the target column that attempt m
\* compared
CurFloorOf(m) ==
  floorSurfaceAt(Floor(m.from[1]), Floor(m.from[3]), FeetOf(m.from) + EPS)
TgtFloorOf(m) ==
  floorSurfaceAtWithinStep(Floor(m.tx), Floor(m.tz), FeetOf(m.from), STEP_HEIGHT)

\* what C19 says of one committed attempt
NeverSnapsDown(m) ==
  /\ m.eye[2] >= m.from[2]
  /\ (~m.grounded \/ TgtFloorOf(m) <= CurFloorOf(m)) => m.eye[2] = m.from[2]
  /\ m.eye[2] # m.from[2] =>
       /\ m.grounded
       /\ TgtFloorOf(m) > CurFloorOf(m)
       /\ m.eye[2] = TgtFloorOf(m) + EYE_HEIGHT

\* C19: a committed single-axis move leaves eye.y as it was when the player is not
\* grounded or the target floor is not higher than the current floor, raises it to
\* the target floor plus EYE_HEIGHT only when grounded with a higher target floor,
\* and never lowers it
C19_TryMoveNeverSnapsDown ==
  \A i \in DOMAIN MovesOfTick : MovesOfTick[i].ok => NeverSnapsDown(MovesOfTick[i])

\* attempt m was committed by a grounded player into a column whose floor is lower
\* than the floor under the feet by more than EPS
OffLedge(m) == m.ok /\ m.grounded /\ TgtFloorOf(m) < CurFloorOf(m) - EPS

\* the last committed attempt of the last frame was a walk off a ledge
LedgeWalkIsLast ==
  \E i \in DOMAIN MovesOfTick :
    /\ OffLedge(MovesOfTick[i])
    /\ \A j \in DOMAIN MovesOfTick : j > i => ~MovesOfTick[j].ok

\* the grounded flag is false right after every walk off a ledge, and the frame
\* that ends after one leaves the player lower, falling and not grounded
LedgeClearsGrounded ==
  /\ \A i \in DOMAIN MovesOfTick : OffLedge(MovesOfTick[i]) => ~MovesOfTick[i].onGround
  /\ LedgeWalkIsLast =>
       /\ ~lastOp.ret.onGround
       /\ FeetOf(eye) < FeetOf(lastOp.ret.eye)
       /\ velY < 0
       /\ ~onGround

\* the player stands on the top of the column the eye is in
Landed ==
  /\ onGround
  /\ velY = 0
  /\ FeetOf(eye) = groundLevelAt(Floor(eye[1]), Floor(eye[3])) * ONE

\* C20: a grounded player's committed move into a column whose floor is lower by
\* more than EPS leaves onGround false right after the move, the frame ends with
\* the player lower and falling, and the frames that follow bring the player to
\* rest on the lower floor
C20_LedgeClearsGroundedAndFalls ==
  /\ []LedgeClearsGrounded
  /\ (LedgeWalkIsLast /\ nTicks = MaxTicks) ~> Landed

\* the last counted frame ended with the player off a ledge, in the air over the
\* lower floor
C20_Witness ==
  /\ LedgeWalkIsLast
  /\ nTicks = MaxTicks
  /\ ~onGround
  /\ velY < 0
  /\ FeetOf(eye) > groundLevelAt(Floor(eye[1]), Floor(eye[3])) * ONE


---------------------------------------------------------------------------
(* Claims about tryMove, continued *)

\* no block of column (x, z) lies in the body span of a player whose eye is at eyeY
ClearAt(x, z, eyeY) ==
  \A y \in Ys : hasBlock(x, y, z) =>
    ~(y * ONE <= eyeY - EYE_HEIGHT + PLAYER_HEIGHT - EPS
        /\ (y + 1) * ONE > eyeY - EYE_HEIGHT + EPS)

\* the target of attempt m is free: a column of the grid whose floor is no more than
\* STEP_HEIGHT above the floor under a grounded player, with room for the body at
\* the height the move gives the eye
FreeTarget(m) ==
  /\ inBoundsXZ(Floor(m.tx), Floor(m.tz))
  /\ m.grounded => TgtFloorOf(m) - CurFloorOf(m) <= STEP_HEIGHT
  /\ ClearAt(Floor(m.tx), Floor(m.tz),
             IF m.grounded /\ TgtFloorOf(m) > CurFloorOf(m) + EPS
             THEN TgtFloorOf(m) + EYE_HEIGHT ELSE m.from[2])

\* the X attempts of the last frame are the odd entries of its attempts, each
\* followed by its Z attempt
XAttempts == { i \in DOMAIN MovesOfTick : i % 2 = 1 }

\* C21: tryMove makes the X attempt first, keeping Z, then the Z attempt from the
\* position and grounded flag the X attempt left, keeping that X; when the X
\* attempt is rejected and the Z-only target is free, the Z attempt is committed:
\* the eye keeps its X and takes the target Z
C21_XThenZIndependent ==
  \A i \in XAttempts :
    LET a == MovesOfTick[i]
        b == MovesOfTick[i + 1]
    IN  /\ a.tz = a.from[3]
        /\ b.from = a.eye
        /\ b.grounded = a.onGround
        /\ b.tx = a.eye[1]
        /\ (~a.ok /\ FreeTarget(b)) =>
             /\ b.ok
             /\ b.eye[1] = a.from[1]
             /\ b.eye[3] = b.tz

\* a diagonal walk against a wall of blocks: the X attempt was rejected by a
\* column inside the grid, the Z attempt moved the eye along the wall
C21_Witness ==
  \E i \in XAttempts :
    LET a == MovesOfTick[i]
        b == MovesOfTick[i + 1]
    IN  /\ ~a.ok
        /\ a.tx # a.from[1]
        /\ inBoundsXZ(Floor(a.tx), Floor(a.tz))
        /\ b.ok
        /\ b.tz # a.from[3]
        /\ eye[1] = a.from[1]
        /\ eye[3] = b.tz


---------------------------------------------------------------------------
(* Claims about the edit operations *)

\* the centre of cell (x, y, z) is at distance 1.0 or more from the point e
CentreFar(e, x, y, z) ==
  LET dx == e[1] - (x * ONE + ONE \div 2)
      dy == e[2] - (y * ONE + ONE \div 2)
      dz == e[3] - (z * ONE + ONE \div 2)
  IN  \/ Abs(dx) >= ONE \/ Abs(dy) >= ONE \/ Abs(dz) >= ONE
      \/ dx * dx + dy * dy + dz * dz >= ONE * ONE

\* cell (x, y, z) is occupied, and has its material, as in the earlier state b
CellAsBefore(b, x, y, z) ==
  /\ hasBlock(x, y, z) = BitSet(b.columnMask[z][x], y)
  /\ blockType[z][x][y] = b.blockType[z][x][y]

\* C22: removeBlockOnFace clears the cell its voxel ray hit if and only if there is
\* a hit within 7.0 whose cell centre is at distance 1.0 or more from the eye; in
\* every other case the world is as it was, and no cell but the hit cell changes
C22_RemoveClearsHitCellOnly ==
  lastOp.op = "removeBlockOnFace" =>
    LET b == lastOp.args[1]
        h == lastOp.hit
        clears == h.hit /\ h.t <= MAX_DIST /\ CentreFar(b.eye, h.x, h.y, h.z)
    IN  /\ clears =>
             /\ BitSet(b.columnMask[h.z][h.x], h.y)
             /\ ~hasBlock(h.x, h.y, h.z)
             /\ blockType[h.z][h.x][h.y] = 0
        /\ ~clears => (columnMask = b.columnMask /\ blockType = b.blockType)
        /\ \A x \in Xs, y \in Ys, z \in Zs :
             (~h.hit \/ <<x, y, z>> # <<h.x, h.y, h.z>>) => CellAsBefore(b, x, y, z)

\* a block at some distance along the ray was taken out from under another block or
\* beside one that stayed
C22_Witness ==
  /\ lastOp.op = "removeBlockOnFace"
  /\ lastOp.hit.hit
  /\ lastOp.hit.t > 0
  /\ lastOp.ret.remove
  /\ ~hasBlock(lastOp.hit.x, lastOp.hit.y, lastOp.hit.z)
  /\ \E x \in Xs, y \in Ys, z \in Zs : hasBlock(x, y, z)


\* addBlockOnFace took its voxel hit: there is one, and the ground hit is missing or
\* no nearer
VoxelBranch == lastOp.hitV.hit /\ ~(lastOp.hitG.hit /\ lastOp.hitG.t < lastOp.hitV.t)

\* C23: when addBlockOnFace takes its voxel hit, the only cell that can change is
\* hitCell + faceNormal; it becomes occupied, with the material of the selected
\* slot, if it is inside the grid, was empty and has its centre at 1.0 or more from
\* the eye, and otherwise the world is as it was.  No call changes the material or
\* the occupancy of a cell that was occupied, and none places outside the grid.
C23_AddBesideStruckFace ==
  lastOp.op = "addBlockOnFace" =>
    LET b == lastOp.args[1]
        h == lastOp.hitV
    IN  /\ VoxelBranch =>
             LET px == h.x + h.nx
                 py == h.y + h.ny
                 pz == h.z + h.nz
                 places == /\ InGrid(px, py, pz)
                           /\ ~BitSet(b.columnMask[pz][px], py)
                           /\ CentreFar(b.eye, px, py, pz)
             IN  /\ places => /\ hasBlock(px, py, pz)
                              /\ blockType[pz][px][py] = BLOCKS[b.gSelectedBlock + 1]
                 /\ ~places => (columnMask = b.columnMask /\ blockType = b.blockType)
                 /\ \A x \in Xs, y \in Ys, z \in Zs :
                      <<x, y, z>> # <<px, py, pz>> => CellAsBefore(b, x, y, z)
        /\ \A x \in Xs, y \in Ys, z \in Zs :
             BitSet(b.columnMask[z][x], y) => CellAsBefore(b, x, y, z)
        /\ lastOp.ret.place => InGrid(lastOp.ret.x, lastOp.ret.y, lastOp.ret.z)
        /\ gSelectedBlock = b.gSelectedBlock

\* a block of the selected material was put beside the side face of a block of
\* another material
C23_Witness ==
  /\ lastOp.op = "addBlockOnFace"
  /\ VoxelBranch
  /\ lastOp.hitV.ny = 0
  /\ lastOp.ret.place
  /\ ~BitSet(lastOp.args[1].columnMask[lastOp.ret.z][lastOp.ret.x], lastOp.ret.y)
  /\ hasBlock(lastOp.ret.x, lastOp.ret.y, lastOp.ret.z)
  /\ blockType[lastOp.ret.z][lastOp.ret.x][lastOp.ret.y] = 2
  /\ blockType[lastOp.hitV.z][lastOp.hitV.x][lastOp.hitV.y] = 3


\* the highest occupied level of column (x, z) in the earlier state b, or -1
TopBefore(b, x, z) ==
  LET occ == { y \in Ys : BitSet(b.columnMask[z][x], y) }
  IN  IF occ = {} THEN -1 ELSE TopOf(occ)

\* C24: addBlockOnFace takes the ground-plane hit exactly when there is one and the
\* voxel hit is missing or strictly farther; it then places nothing but the cell
\* above the current top of the column the ground hit lies in, places it whenever
\* the column is not full and the cell's centre is not nearer than 1.0, and places
\* nothing when the column is full to MAX_H
C24_GroundHitPlacesOnColumnTop ==
  lastOp.op = "addBlockOnFace" =>
    LET b == lastOp.args[1]
        hG == lastOp.hitG
        hV == lastOp.hitV
        useGround == hG.hit /\ (~hV.hit \/ hG.t < hV.t)
    IN  /\ lastOp.ret.ground <=> useGround
        /\ useGround =>
             LET top == TopBefore(b, hG.x, hG.z)
             IN  /\ lastOp.ret.place =>
                      /\ <<lastOp.ret.x, lastOp.ret.y, lastOp.ret.z>> = <<hG.x, top + 1, hG.z>>
                      /\ hasBlock(hG.x, top + 1, hG.z)
                      /\ blockType[hG.z][hG.x][top + 1] = BLOCKS[b.gSelectedBlock + 1]
                 /\ (top < MAX_H - 1 /\ CentreFar(b.eye, hG.x, top + 1, hG.z)) =>
                      lastOp.ret.place
                 /\ top = MAX_H - 1 =>
                      (~lastOp.ret.place /\ columnMask = b.columnMask
                         /\ blockType = b.blockType)
                 /\ \A x \in Xs, y \in Ys, z \in Zs :
                      <<x, y, z>> # <<hG.x, top + 1, hG.z>> => CellAsBefore(b, x, y, z)

\* a click on the ground under a block that hangs in the air: the new block went on
\* top of it
C24_Witness ==
  /\ lastOp.op = "addBlockOnFace"
  /\ lastOp.ret.ground
  /\ ~lastOp.hitV.hit
  /\ lastOp.ret.place
  /\ lastOp.ret.y > 1
  /\ ~hasBlock(lastOp.ret.x, 0, lastOp.ret.z)
  /\ hasBlock(lastOp.ret.x, lastOp.ret.y - 1, lastOp.ret.z)
  /\ hasBlock(lastOp.ret.x, lastOp.ret.y, lastOp.ret.z)


---------------------------------------------------------------------------
(* Claims about raycastVoxel.  The ray is compared with the slabs of each  *)
(* cell: the distances at which the line from the origin along the         *)
(* direction enters and leaves the cell's span on each axis.               *)

\* distances agree when they differ by no more than the rounding of the quotients
RayTol == 20 * EPS

\* the distance at which the ray enters, and leaves, the span of cell index k on an
\* axis where the origin is o and the direction d
SlabEnter(o, d, k) ==
  IF d > 0 THEN Div(k * ONE - o, d)
  ELSE IF d < 0 THEN Div((k + 1) * ONE - o, d)
  ELSE IF Floor(o) = k THEN -INF ELSE INF

SlabExit(o, d, k) ==
  IF d > 0 THEN Div((k + 1) * ONE - o, d)
  ELSE IF d < 0 THEN Div(k * ONE - o, d)
  ELSE IF Floor(o) = k THEN INF ELSE -INF

CellEnter(o, d, x, y, z) ==
  Max(0, Max(SlabEnter(o[1], d[1], x),
             Max(SlabEnter(o[2], d[2], y), SlabEnter(o[3], d[3], z))))

CellExit(o, d, x, y, z) ==
  Min(SlabExit(o[1], d[1], x), Min(SlabExit(o[2], d[2], y), SlabExit(o[3], d[3], z)))

\* the ray runs through the inside of cell (x, y, z), not just along a face or an edge
PassesThrough(o, d, x, y, z) ==
  CellExit(o, d, x, y, z) - CellEnter(o, d, x, y, z) > 2 * RayTol

\* the occupied cells of the grid the ray runs through
OccupiedOnRay(o, d) ==
  { c \in Xs \X Ys \X Zs : hasBlock(c[1], c[2], c[3])
                            /\ PassesThrough(o, d, c[1], c[2], c[3]) }

\* C25: the cell raycastVoxel returns is occupied and entered by the ray at the
\* returned distance, within maxDist; no occupied cell the ray runs through is
\* entered earlier; without a hit no occupied cell is entered within maxDist; the
\* loop tests cells in order of distance, each next to the one before, none twice,
\* each where the ray enters it, and it leaves out no cell of the grid the ray runs
\* through before the last one tested
C25_FirstOccupiedCell ==
  lastOp.op = "raycastVoxel" =>
    LET h == lastOp.ret
        v == lastOp.visits
        d == forwardDir
        maxDist == lastOp.args[1]
    IN  /\ h.hit =>
             /\ hasBlock(h.x, h.y, h.z)
             /\ h.t <= maxDist
             /\ Abs(h.t - CellEnter(eye, d, h.x, h.y, h.z)) <= RayTol
             /\ \A c \in OccupiedOnRay(eye, d) :
                  CellEnter(eye, d, c[1], c[2], c[3]) >= h.t - RayTol
             /\ <<v[Len(v)].x, v[Len(v)].y, v[Len(v)].z>> = <<h.x, h.y, h.z>>
        /\ ~h.hit =>
             \A c \in OccupiedOnRay(eye, d) :
               CellEnter(eye, d, c[1], c[2], c[3]) > maxDist - RayTol
        /\ \A i \in 1 .. (Len(v) - 1) :
             /\ v[i].t <= v[i + 1].t
             /\ Abs(v[i + 1].x - v[i].x) + Abs(v[i + 1].y - v[i].y)
                  + Abs(v[i + 1].z - v[i].z) = 1
        /\ \A i \in DOMAIN v, j \in DOMAIN v :
             i < j => <<v[i].x, v[i].y, v[i].z>> # <<v[j].x, v[j].y, v[j].z>>
        /\ \A i \in DOMAIN v :
             Abs(v[i].t - CellEnter(eye, d, v[i].x, v[i].y, v[i].z)) <= RayTol
        /\ \A c \in Xs \X Ys \X Zs :
             ( /\ PassesThrough(eye, d, c[1], c[2], c[3])
               /\ CellEnter(eye, d, c[1], c[2], c[3]) < v[Len(v)].t - RayTol ) =>
             \E i \in DOMAIN v : <<v[i].x, v[i].y, v[i].z>> = c

\* a slanting ray that ran through an empty cell of the grid, hit the block behind it
\* at some distance, and would have run on through another block
C25_Witness ==
  /\ lastOp.op = "raycastVoxel"
  /\ lastOp.ret.hit
  /\ lastOp.ret.t > ONE
  /\ forwardDir[1] # 0 /\ forwardDir[2] # 0 /\ forwardDir[3] # 0
  /\ \E i \in DOMAIN lastOp.visits :
       /\ i < Len(lastOp.visits)
       /\ InGrid(lastOp.visits[i].x, lastOp.visits[i].y, lastOp.visits[i].z)
  /\ \E c \in OccupiedOnRay(eye, forwardDir) :
       CellEnter(eye, forwardDir, c[1], c[2], c[3]) > lastOp.ret.t + RayTol


\* C26: every hit of raycastVoxel has a normal with exactly one component +1 or -1
\* and the others 0, the opposite of the step that led into the hit cell; an origin
\* inside an occupied cell is reported at once, at distance 0, with such a normal
C26_HitNormalIsUnitAxis ==
  (lastOp.op = "raycastVoxel" /\ lastOp.ret.hit) =>
    LET h == lastOp.ret
        v == lastOp.visits
    IN  /\ Abs(h.nx) + Abs(h.ny) + Abs(h.nz) = 1
        /\ Len(v) > 1 =>
             <<h.nx, h.ny, h.nz>> = <<v[Len(v) - 1].x - h.x, v[Len(v) - 1].y - h.y,
                                      v[Len(v) - 1].z - h.z>>
        /\ hasBlock(Floor(eye[1]), Floor(eye[2]), Floor(eye[3])) =>
             /\ <<h.x, h.y, h.z>> = <<Floor(eye[1]), Floor(eye[2]), Floor(eye[3])>>
             /\ h.t = 0


\* a pass of the loop is in progress, or the loop has ended
InRayLoop == lastOp.op = "raycastVoxel.loop"
RayLoopEnded == InRayLoop /\ lastOp.done

\* the loop never makes more than 2048 passes; a hit lies within maxDist; the loop
\* ends without a hit only after 2048 passes or with t beyond maxDist
RayLoopBounded ==
  InRayLoop =>
    /\ lastOp.s.iter <= MAX_ITER
    /\ lastOp.s.t >= 0
    /\ (lastOp.done /\ lastOp.ret.hit) => lastOp.ret.t <= lastOp.args[1]
    /\ (lastOp.done /\ ~lastOp.ret.hit) =>
         (lastOp.s.iter = MAX_ITER \/ lastOp.s.t > lastOp.args[1])

\* from one pass to the next t does not decrease, and an axis along which the
\* direction is 0 keeps its cell index
RayStepMonotone ==
  (InRayLoop /\ lastOp'.op = "raycastVoxel.loop") =>
    /\ lastOp'.s.t >= lastOp.s.t
    /\ lastOp'.s.iter \in { lastOp.s.iter, lastOp.s.iter + 1 }
    /\ forwardDir[1] = 0 => lastOp'.s.x = lastOp.s.x
    /\ forwardDir[2] = 0 => lastOp'.s.y = lastOp.s.y
    /\ forwardDir[3] = 0 => lastOp'.s.z = lastOp.s.z

\* C27: raycastVoxel terminates for every origin and direction, directions with
\* one or two zero components included, whose axes are never stepped; t never
\* decreases from one step to the next; the loop ends after at most 2048 steps or
\* once t exceeds maxDist; every hit has t <= maxDist
C27_RaycastTerminates ==
  /\ []RayLoopBounded
  /\ [][RayStepMonotone]_vars
  /\ <>RayLoopEnded

\* a cast in a direction with a zero component that the count of passes ended, far
\* beyond the grid
C27_Witness ==
  /\ RayLoopEnded
  /\ forwardDir[1] = 0
  /\ ~lastOp.ret.hit
  /\ lastOp.s.iter = MAX_ITER
  /\ lastOp.s.t <= lastOp.args[1]


---------------------------------------------------------------------------
(* Claims about jumping and landing *)

\* the player as handleKeys has it on reaching the jump key: the move keys are done
JumpPose(dt, held) ==
  handleKeys([eye |-> eye, yawDeg |-> yawDeg, velY |-> velY, onGround |-> onGround,
              moves |-> <<>>], 1, held \ {" ", "q", "e"}, dt)

\* the feet of a player whose eye is at e rest on a floor surface of its column
FeetOnFloor(e) == \E s \in FloorSurfaces(e) : Abs(FeetOf(e) - s) <= 10 * EPS

\* a frame that applies the jump impulse: the jump key is held and onGround is set
JumpApplied ==
  /\ lastOp'.op = "tick"
  /\ " " \in lastOp'.args[2]
  /\ JumpPose(lastOp'.args[1], lastOp'.args[2]).onGround

\* C28: the jump impulse is applied only to a player whose feet rest on a floor
\* surface, in any interleaving of frames, moves and block edits: there is no jump
\* in mid-air, and none before the player has landed again
C28_NoMidAirJump ==
  [][JumpApplied =>
       FeetOnFloor(JumpPose(lastOp'.args[1], lastOp'.args[2]).eye)]_vars


\* the feet are exactly on a floor surface of the eye's column
FeetAtFloor == FeetOf(eye) \in FloorSurfaces(eye)

\* the step is a frame with no key held
IdleStep == lastOp'.op = "tick" /\ lastOp'.args[2] = {}

\* C29 as stated: with frames that go on and no key, the player comes to
\* onGround = true, and from then on every frame leaves eye.y, velY = 0 and
\* onGround = true as they are
C29_LandingStable ==
  [][(IdleStep /\ onGround) => (eye' = eye /\ velY' = 0 /\ onGround')]_vars


\* the player is at rest: grounded, without velocity, the feet exactly on a floor
AtRest == onGround /\ velY = 0 /\ FeetAtFloor

\* a frame with no key leaves a player at rest as it is
RestKept == (IdleStep /\ AtRest) => (eye' = eye /\ velY' = 0 /\ onGround')

\* C29 as amended: with frames that go on and no key, the player comes to rest
\* with the feet exactly on a floor surface, velY = 0 and onGround = true, and
\* from then on every frame leaves eye.y, velY and onGround as they are
C29_LandsAndRests == <>[]AtRest /\ [][RestKept]_vars

\* a keyless frame has landed a falling player on the top of the tower
C29_Witness ==
  /\ lastOp.op = "tick"
  /\ lastOp.args[2] = {}
  /\ ~lastOp.ret.onGround
  /\ lastOp.ret.velY < 0
  /\ AtRest
  /\ FeetOf(eye) > 0


---------------------------------------------------------------------------
(* Claims about undo and redo of the paint program *)

\* redo() has just run right after an undo() that took an action back
RedoAfterUndo ==
  /\ lastOp.op = "redo"
  /\ lastOp.prev.op = "undo"
  /\ lastOp.prev.ret

\* redo() has just run right after a new action: a completed stroke, Clear or
\* Draw Picture
RedoAfterNewAction ==
  /\ lastOp.op = "redo"
  /\ \/ lastOp.prev.op \in { "clear", "drawMyPicture" }
     \/ lastOp.prev.op \in { "mouseup", "mouseleave", "mousedown" } /\ lastOp.prev.ret

\* undo followed at once by redo gives shapesList the content it had before the undo
UndoRedoRestores == RedoAfterUndo => shapesList = lastOp.prev.before

\* redo after a new action does nothing
RedoAfterNewActionIdle ==
  RedoAfterNewAction => (~lastOp.ret /\ shapesList = lastOp.before)

\* C30: after any strokes, Clear and Draw Picture actions, undo followed at once
\* by redo restores shapesList to the content it had before the undo, and redo
\* after a new action does nothing
C30_UndoRedoRoundTrip == UndoRedoRestores /\ RedoAfterNewActionIdle

=============================================================================
